---------------------------- MODULE Spec2Model ----------------------------
(***************************************************************************)
(* DownloadStation: the download-job lifecycle.                            *)
(*                                                                         *)
(*   core/download_thread.py  DownloadThread.run / progress_hook / cancel  *)
(*   core/settings.py         SettingsManager.add_download_history         *)
(*   ui/widgets.py            DownloadItem (completed/failed/cancelled)    *)
(*   ui/main_window.py        DownloadStation.add_download,                *)
(*                            cancel_download, on_download_completed,      *)
(*                            on_download_failed                           *)
(*                                                                         *)
(* A job is one DownloadThread together with its DownloadItem widget.  The *)
(* thread runs concurrently with the UI context; its signals reach the UI  *)
(* slots through a FIFO of queued deliveries.                              *)
(***************************************************************************)
EXTENDS Integers, Sequences, FiniteSets, TLC

(***************************************************************************)
(* Bounds of the model.                                                    *)
(***************************************************************************)
MaxEntries == 2
MaxProgress == 1
MaxAdds == 3
MaxClock == 4000
MaxRaw == 5
MaxPad == 1
MaxDelta == 64
MaxBytes == 50
MaxEta == 7300
MaxUrls == 1
MaxFound == 2

(***************************************************************************)
(* Program constants.                                                      *)
(***************************************************************************)
max_retries == 3
retry_delay == 5
TickMs == 1000
CancelWaitMs == 2000
FinalWaitMs == 3000
HistoryMax == 50

Jobs == {1}

(***************************************************************************)
(* Text.  A message is a sequence of one-character strings, so that the    *)
(* substring tests of the code are computed, not assumed.                  *)
(***************************************************************************)
UpperChars ==
  <<"A","B","C","D","E","F","G","H","I","J","K","L","M","N","O","P","Q","R","S","T","U","V","W","X","Y","Z">>
LowerChars ==
  <<"a","b","c","d","e","f","g","h","i","j","k","l","m","n","o","p","q","r","s","t","u","v","w","x","y","z">>

LowerChar(c) ==
  IF \E k \in 1..26 : UpperChars[k] = c
  THEN LowerChars[CHOOSE k \in 1..26 : UpperChars[k] = c]
  ELSE c

\* str.lower()
Lower(s) == [k \in 1..Len(s) |-> LowerChar(s[k])]

UpperChar(c) ==
  IF \E k \in 1..26 : LowerChars[k] = c
  THEN UpperChars[CHOOSE k \in 1..26 : LowerChars[k] = c]
  ELSE c

\* str.upper()
Upper(s) == [k \in 1..Len(s) |-> UpperChar(s[k])]

\* frag in s
Contains(frag, s) ==
  \E off \in 0..(Len(s) - Len(frag)) :
    \A k \in 1..Len(frag) : s[off + k] = frag[k]

retryable_errors ==
  << <<"t","i","m","e","o","u","t">>,
     <<"c","o","n","n","e","c","t","i","o","n">>,
     <<"n","e","t","w","o","r","k">>,
     <<"h","t","t","p"," ","e","r","r","o","r"," ","5">>,
     <<"t","e","m","p","o","r","a","r","y"," ","f","a","i","l","u","r","e">>,
     <<"u","n","a","b","l","e"," ","t","o"," ","d","o","w","n","l","o","a","d">>,
     <<"f","r","a","g","m","e","n","t">>,
     <<"s","o","c","k","e","t">>,
     <<"h","t","t","p"," ","e","r","r","o","r"," ","4","1","6">>,
     <<"s","s","l">> >>

\* A plausible slip: every error is taken to be worth retrying.
is_retryable_error_always(error_msg) == TRUE

\* A plausible slip: the message is searched as it is, without lower().
is_retryable_error_case_sensitive(error_msg) ==
  \E k \in 1..Len(retryable_errors) : Contains(retryable_errors[k], error_msg)

is_retryable_error(error_msg) ==
  LET error_lower == Lower(error_msg)
  IN  \E k \in 1..Len(retryable_errors) : Contains(retryable_errors[k], error_lower)

\* "416" in error_msg or "range not satisfiable" in error_msg.lower()
is_range_conflict(error_msg) ==
  \/ Contains(<<"4","1","6">>, error_msg)
  \/ Contains(<<"r","a","n","g","e"," ","n","o","t"," ","s","a","t","i","s","f","i","a","b","l","e">>,
              Lower(error_msg))

(***************************************************************************)
(* The errors the extraction capability raises in this model, by name, and *)
(* the text str(e) of each.                                                *)
(***************************************************************************)
ErrorIds == {"E503", "E416", "EUnavailable"}

\* Two more errors, for the tests of the except clause: a range conflict that
\* is reported without its HTTP status, and another error whose text has "416".
RangeErrorIds == {"ERange", "EFragment416"}

AllErrorIds == ErrorIds \cup RangeErrorIds

ErrorText(e) ==
  CASE e = "E503" ->
         <<"H","T","T","P"," ","E","r","r","o","r"," ","5","0","3",":"," ","S","e","r","v","i","c","e"," ","U","n","a","v","a","i","l","a","b","l","e">>
    [] e = "E416" ->
         <<"H","T","T","P"," ","E","r","r","o","r"," ","4","1","6",":"," ","R","e","q","u","e","s","t","e","d"," ","r","a","n","g","e"," ","n","o","t"," ","s","a","t","i","s","f","i","a","b","l","e">>
    [] e = "ERange" ->
         <<"R","e","q","u","e","s","t","e","d"," ","r","a","n","g","e"," ","n","o","t"," ","s","a","t","i","s","f","i","a","b","l","e">>
    [] e = "EFragment416" ->
         <<"U","n","a","b","l","e"," ","t","o"," ","d","o","w","n","l","o","a","d"," ","f","r","a","g","m","e","n","t"," ","4","1","6">>
    [] OTHER ->
         <<"V","i","d","e","o"," ","u","n","a","v","a","i","l","a","b","l","e">>

\* The two tests of the except clause, evaluated once per error.
Retryable == [e \in AllErrorIds |-> is_retryable_error(ErrorText(e))]
RangeConflict == [e \in AllErrorIds |-> is_range_conflict(ErrorText(e))]

(***************************************************************************)
(* State.                                                                  *)
(***************************************************************************)
VARIABLES
  threads,           \* job -> the DownloadThread object and the position of run()
  emitted,           \* job -> every signal the thread has emitted, in order
  queue,             \* signals queued for delivery to the slots of the UI context
  items,             \* job -> the DownloadItem widget
  download_threads,  \* DownloadStation.download_threads
  downloads_count,   \* DownloadStation.downloads_count
  download_history,  \* settings["download_history"], newest first
  added,             \* every entry ever passed to add_download_history, newest first
  ui,                \* the UI context: idle, or inside thread.wait(2000) of cancel()
  part_files,        \* jobs that have a *.part file in the target directory
  mark,              \* job -> where run() stood when is_cancelled was set
  loader,            \* the PlaylistInfoThread of the loading dialog
  call,              \* the last call of a formatting or classifying function
  invoked,           \* job -> the download calls made for its playlist entries, in order
  window             \* the main window: open, inside start_downloads or closeEvent, closed

vars ==
  <<threads, emitted, queue, items, download_threads, downloads_count,
    download_history, added, loader, call, invoked, window, ui, part_files, mark>>

\* A playlist entry, by what run() reads of it: a url (or webpage_url) and an id
\* (or video_id). The entries that PlaylistInfoThread.run builds (playlist_loader.py
\* lines 67-77) all carry a url; the one entry of a single-video pseudo-playlist
\* (lines 96-100) is the raw info and may lack an id.
EntryKinds ==
  { [url |-> TRUE, id |-> TRUE], [url |-> TRUE, id |-> FALSE] }

\* playlist_entries of a job: empty for a single item.
EntryLists == UNION { [1..n -> EntryKinds] : n \in 0..MaxEntries }

\* A signal with its arguments: kind tells the emit site, n and m are its numbers,
\* msg is the error of the attempt that the message reports ("" at the other
\* emit sites).
Event(sig, kind, n, m, msg) == [sig |-> sig, kind |-> kind, n |-> n, m |-> m, msg |-> msg]

\* DownloadThread.__init__
NewThread(entries) ==
  [ pc |-> "loop", attempt |-> 0, i |-> 0, is_cancelled |-> FALSE,
    terminate_req |-> FALSE, playlist_entries |-> entries, idx |-> 0,
    err |-> "none", downloaded_files |-> <<>>, tries |-> 0 ]

NoThread == [NewThread(<<>>) EXCEPT !.pc = "none"]

\* DownloadItem.__init__
NewItem ==
  [ completed |-> FALSE, failed |-> FALSE, cancelled |-> FALSE,
    cancel_visible |-> TRUE, in_list |-> TRUE, status |-> "starting" ]

NoItem == [NewItem EXCEPT !.in_list = FALSE, !.cancel_visible = FALSE, !.status = "none"]

NoMark == [at |-> -1, pc |-> "none", tries |-> 0, ticks |-> 0]

\* QThread.isRunning
isRunning(t) == t.pc \notin {"none", "done", "killed"}

\* The signals add_download connects to a slot; retry_status is connected nowhere.
Connected(sig) == sig \in {"progress_updated", "download_completed", "download_failed"}

Take(s, n) == IF Len(s) <= n THEN s ELSE SubSeq(s, 1, n)

\* PlaylistInfoThread.__init__, not started. log is every signal the thread has
\* emitted, at the length of log when cancel() set the flag.
NoLoader ==
  [ pc |-> "none", is_cancelled |-> FALSE, entries |-> <<>>, i |-> 0,
    valid_entries |-> <<>>, loaded_count |-> 0, log |-> <<>>, at |-> -1 ]

\* No function was called yet.
NoCall == [fn |-> "none", arg |-> <<>>, out |-> <<>>]

\* The UI context in its event loop. Inside a wait(), job is the thread waited
\* for, waited the time spent in the wait, and active the threads that were
\* running when cancel_all_downloads was called.
UiIdle == [pc |-> "idle", job |-> 0, waited |-> 0, active |-> {}]

\* The main window as shown, nothing submitted: pc is the position of the UI
\* context inside start_downloads or closeEvent, reply the last answer to the
\* question of closeEvent, lines the text submitted to start_downloads,
\* path_exists and no_playlist what it read, urls the URLs still to go through, handled what became of every URL
\* gone through, seen the number of loader signals delivered to the loading
\* dialog, and playlist_info the entries that on_info_loaded stored.
WindowOpen ==
  [ pc |-> "open", reply |-> "none", lines |-> <<>>, submitted |-> FALSE,
    path_exists |-> TRUE, no_playlist |-> FALSE,
    urls |-> <<>>, handled |-> <<>>, seen |-> 0, playlist_info |-> <<>> ]

Init ==
  /\ threads = [j \in Jobs |-> NoThread]
  /\ emitted = [j \in Jobs |-> <<>>]
  /\ queue = <<>>
  /\ items = [j \in Jobs |-> NoItem]
  /\ download_threads = <<>>
  /\ downloads_count = 0
  /\ download_history = <<>>
  /\ added = <<>>
  /\ ui = UiIdle
  /\ part_files = {}
  /\ mark = [j \in Jobs |-> NoMark]
  /\ loader = NoLoader
  /\ call = NoCall
  /\ invoked = [j \in Jobs |-> <<>>]
  /\ window = WindowOpen

(***************************************************************************)
(* Signal emission from run(): the signal is logged and, when a slot is    *)
(* connected to it, queued for the UI context.                             *)
(***************************************************************************)
ConnectedEvent(e) == Connected(e.sig)

Emit(j, evs) ==
  LET delivered == SelectSeq(evs, ConnectedEvent)
  IN  /\ emitted' = [emitted EXCEPT ![j] = @ \o evs]
      /\ queue' = queue \o [k \in 1..Len(delivered) |-> [job |-> j, ev |-> delivered[k]]]

NoEmit == UNCHANGED <<emitted, queue>>

\* A download call of the playlist branch: the position of the entry in
\* playlist_entries and the URL given, the entry's own or the one rebuilt
\* from its id.
Invocation(idx, url) == [of |-> idx, url |-> url]

\* What no step of run() touches.
UNCHANGED_Station ==
  UNCHANGED <<items, download_threads, downloads_count, download_history, added, loader, call, ui,
              window>>

UNCHANGED_UI ==
  UNCHANGED <<items, download_threads, downloads_count, download_history, added, loader, call, invoked, window, ui>>


(***************************************************************************)
(* DownloadThread.run, one action per step between two points where the    *)
(* UI context (cancel) or the extraction capability can interleave.        *)
(***************************************************************************)

\* Lines 52-59: the head of the attempt loop. A cancelled job returns; a later
\* attempt first emits retry_status(attempt + 1, max_retries, "Retrying download...").
RunLoopHead(j) ==
  LET t == threads[j] IN
  /\ t.pc = "loop"
  /\ IF t.attempt > max_retries \/ t.is_cancelled
     THEN /\ threads' = [threads EXCEPT ![j].pc = "done"]
          /\ NoEmit
     ELSE /\ threads' = [threads EXCEPT ![j].pc = "opened", ![j].tries = @ + 1]
          /\ IF t.attempt > 0
             THEN Emit(j, <<Event("retry_status", "retrying", t.attempt + 1, max_retries, "")>>)
             ELSE NoEmit
  /\ UNCHANGED <<part_files, mark>>
  /\ UNCHANGED_UI

\* Lines 103-110: inside "with YoutubeDL", the second cancel check and the choice
\* between the playlist branch and the single-item branch.
RunOpened(j) ==
  LET t == threads[j] IN
  /\ t.pc = "opened"
  /\ threads' =
       IF t.is_cancelled THEN [threads EXCEPT ![j].pc = "done"]
       ELSE IF t.playlist_entries # <<>>
            THEN [threads EXCEPT ![j].pc = "entry_head", ![j].idx = 1]
            ELSE [threads EXCEPT ![j].pc = "extract_info"]
  /\ NoEmit
  /\ UNCHANGED <<part_files, mark>>
  /\ UNCHANGED_UI

\* Line 157: ydl.extract_info(url, download=False) returns.
ExtractInfoReturns(j) ==
  /\ threads[j].pc = "extract_info"
  /\ threads' = [threads EXCEPT ![j].pc = "after_info"]
  /\ NoEmit
  /\ UNCHANGED <<part_files, mark>>
  /\ UNCHANGED_UI

\* Line 157: ydl.extract_info raises.
ExtractInfoRaises(j, e) ==
  /\ threads[j].pc = "extract_info"
  /\ threads' = [threads EXCEPT ![j].pc = "except", ![j].err = e]
  /\ NoEmit
  /\ UNCHANGED <<part_files, mark>>
  /\ UNCHANGED_UI

\* Lines 158-159 (and 166): the download call is made only when not cancelled.
RunAfterInfo(j) ==
  LET t == threads[j] IN
  /\ t.pc = "after_info"
  /\ threads' = [threads EXCEPT ![j].pc = IF t.is_cancelled THEN "done" ELSE "download"]
  /\ NoEmit
  /\ UNCHANGED <<part_files, mark>>
  /\ UNCHANGED_UI

\* The download calls during which the extraction capability calls progress_hook.
InDownload(t) == t.pc \in {"download", "entry_dl", "fallback_dl"}

\* The output file of the download call in progress: one per URL.
CurrentFile(t) == IF t.pc = "download" THEN 1 ELSE t.idx

ProgressCount(j) ==
  Len(SelectSeq(emitted[j], LAMBDA e : e.sig = "progress_updated"))

\* Lines 250-265: progress_hook with status 'downloading'.
progress_hook_downloading(j) ==
  LET t == threads[j] IN
  /\ InDownload(t)
  /\ ProgressCount(j) < MaxProgress
  /\ j \notin part_files \/ ~t.is_cancelled
  /\ IF ~t.is_cancelled
     THEN Emit(j, <<Event("progress_updated", "downloading", 0, 0, "")>>)
     ELSE NoEmit
  /\ part_files' = part_files \cup {j}
  /\ UNCHANGED <<threads, mark>>
  /\ UNCHANGED_UI

\* Lines 267-271: progress_hook with status 'finished' records the file once.
RecordFile(files, f) ==
  IF \E k \in 1..Len(files) : files[k] = f THEN files ELSE Append(files, f)

progress_hook_finished(j) ==
  LET t == threads[j] IN
  /\ InDownload(t)
  /\ RecordFile(t.downloaded_files, CurrentFile(t)) # t.downloaded_files \/ j \in part_files
  /\ threads' = [threads EXCEPT ![j].downloaded_files = RecordFile(@, CurrentFile(t))]
  /\ part_files' = part_files \ {j}
  /\ NoEmit
  /\ UNCHANGED mark
  /\ UNCHANGED_UI

\* Line 159: ydl.download([url]) returns.
DownloadReturns(j) ==
  /\ threads[j].pc = "download"
  /\ threads' = [threads EXCEPT ![j].pc = "after_download"]
  /\ NoEmit
  /\ UNCHANGED <<part_files, mark>>
  /\ UNCHANGED_UI

\* Line 159: ydl.download([url]) raises.
DownloadRaises(j, e) ==
  /\ threads[j].pc = "download"
  /\ threads' = [threads EXCEPT ![j].pc = "except", ![j].err = e]
  /\ NoEmit
  /\ UNCHANGED <<part_files, mark>>
  /\ UNCHANGED_UI

\* Lines 160-166: the terminal event of a single-item job.
RunAfterDownload(j) ==
  LET t == threads[j] IN
  /\ t.pc = "after_download"
  /\ threads' = [threads EXCEPT ![j].pc = "done"]
  /\ IF ~t.is_cancelled /\ t.downloaded_files # <<>>
     THEN Emit(j, <<Event("download_completed", "single", t.downloaded_files[1], 0, "")>>)
     ELSE Emit(j, <<Event("download_failed", "nofiles", 0, 0, "")>>)
  /\ UNCHANGED <<part_files, mark>>
  /\ UNCHANGED_UI

\* Lines 192-218: glob "*.part*" and "*.ytdl" in the output directory, remove all.
cleanup_partial_files(files) == {}

\* Lines 168-190: the except clause of the attempt.
RunExcept(j) ==
  LET t == threads[j] IN
  /\ t.pc = "except"
  /\ IF Retryable[t.err] /\ t.attempt < max_retries
     THEN /\ part_files' = IF RangeConflict[t.err] THEN cleanup_partial_files(part_files)
                           ELSE part_files
          /\ Emit(j, <<Event("retry_status", "failed", t.attempt + 1, max_retries + 1, t.err)>>)
          /\ threads' = [threads EXCEPT ![j].pc = "backoff_check", ![j].i = 0,
                                         ![j].err = "none"]
     ELSE /\ IF ~t.is_cancelled
             THEN Emit(j, <<Event("download_failed", "final", t.attempt + 1, 0, t.err)>>)
             ELSE NoEmit
          /\ threads' = [threads EXCEPT ![j].pc = "done", ![j].err = "none"]
          /\ UNCHANGED part_files
  /\ UNCHANGED mark
  /\ UNCHANGED_UI

\* A plausible slip: the backoff sleeps through without looking at the flag.
RunBackoffCheck_uncancellable(j) ==
  LET t == threads[j] IN
  /\ t.pc = "backoff_check"
  /\ threads' =
       IF t.i >= retry_delay
       THEN [threads EXCEPT ![j].pc = "loop", ![j].attempt = @ + 1]
       ELSE [threads EXCEPT ![j].pc = "backoff_sleep"]
  /\ NoEmit
  /\ UNCHANGED <<part_files, mark>>
  /\ UNCHANGED_UI

\* Lines 180-182 and 184: one turn of the backoff loop; after retry_delay turns
\* the next attempt starts.
RunBackoffCheck(j) ==
  LET t == threads[j] IN
  /\ t.pc = "backoff_check"
  /\ threads' =
       IF t.i >= retry_delay
       THEN [threads EXCEPT ![j].pc = "loop", ![j].attempt = @ + 1]
       ELSE IF t.is_cancelled
            THEN [threads EXCEPT ![j].pc = "done"]
            ELSE [threads EXCEPT ![j].pc = "backoff_sleep"]
  /\ NoEmit
  /\ UNCHANGED <<part_files, mark>>
  /\ UNCHANGED_UI

\* Line 183: msleep(1000) ends.
RunBackoffSleep(j) ==
  LET t == threads[j] IN
  /\ t.pc = "backoff_sleep"
  /\ threads' = [threads EXCEPT ![j].pc = "backoff_check", ![j].i = @ + 1]
  /\ mark' = IF t.is_cancelled THEN [mark EXCEPT ![j].ticks = @ + 1] ELSE mark
  /\ NoEmit
  /\ UNCHANGED part_files
  /\ UNCHANGED_UI


(***************************************************************************)
(* The playlist branch of run(), lines 110-153.                            *)
(***************************************************************************)

\* Lines 111-117: the head of the entry loop. A cancelled job breaks out; an
\* entry without url and webpage_url is passed over.
RunEntryHead(j) ==
  LET t == threads[j]
      calls == t.idx <= Len(t.playlist_entries) /\ ~t.is_cancelled
                 /\ t.playlist_entries[t.idx].url
  IN
  /\ t.pc = "entry_head"
  /\ threads' =
       IF t.idx > Len(t.playlist_entries) \/ t.is_cancelled
       THEN [threads EXCEPT ![j].pc = "playlist_end"]
       ELSE IF t.playlist_entries[t.idx].url
            THEN [threads EXCEPT ![j].pc = "entry_dl"]
            ELSE [threads EXCEPT ![j].idx = @ + 1]
  /\ invoked' = IF calls THEN [invoked EXCEPT ![j] = Append(@, Invocation(t.idx, "url"))]
                ELSE invoked
  /\ NoEmit
  /\ UNCHANGED <<part_files, mark>>
  /\ UNCHANGED_Station

\* Line 134: individual_ydl.download([video_url]) returns.
EntryReturns(j) ==
  /\ threads[j].pc = "entry_dl"
  /\ threads' = [threads EXCEPT ![j].pc = "entry_head", ![j].idx = @ + 1]
  /\ NoEmit
  /\ UNCHANGED <<part_files, mark>>
  /\ UNCHANGED_UI

\* A plausible slip: the error of an entry's download left to the except
\* clause of the attempt, with its retry.
EntryRaises_propagates(j, e) ==
  /\ threads[j].pc = "entry_dl"
  /\ threads' = [threads EXCEPT ![j].pc = "except", ![j].err = e]
  /\ NoEmit
  /\ UNCHANGED <<part_files, mark>>
  /\ UNCHANGED_UI

\* Lines 135-141: the download of the entry raises: download_failed is emitted,
\* then the fallback URL is tried when the entry has an id.
EntryRaises(j, e) ==
  LET t == threads[j] IN
  /\ t.pc = "entry_dl"
  /\ Emit(j, <<Event("download_failed", "entry", 0, t.idx, "")>>)
  /\ threads' =
       IF t.playlist_entries[t.idx].id
       THEN [threads EXCEPT ![j].pc = "fallback_dl"]
       ELSE [threads EXCEPT ![j].pc = "entry_head", ![j].idx = @ + 1]
  /\ invoked' = IF t.playlist_entries[t.idx].id
                THEN [invoked EXCEPT ![j] = Append(@, Invocation(t.idx, "fallback"))]
                ELSE invoked
  /\ UNCHANGED <<part_files, mark>>
  /\ UNCHANGED_Station

\* Line 146: fallback_ydl.download([fallback_url]) returns.
FallbackReturns(j) ==
  /\ threads[j].pc = "fallback_dl"
  /\ threads' = [threads EXCEPT ![j].pc = "entry_head", ![j].idx = @ + 1]
  /\ NoEmit
  /\ UNCHANGED <<part_files, mark>>
  /\ UNCHANGED_UI

\* A plausible slip: the fallback made into a retry, tried again when it fails.
FallbackRaises_repeats(j, e) ==
  LET t == threads[j] IN
  /\ t.pc = "fallback_dl"
  /\ Emit(j, <<Event("download_failed", "fallback", 0, t.idx, "")>>)
  /\ invoked' = [invoked EXCEPT ![j] = Append(@, Invocation(t.idx, "fallback"))]
  /\ UNCHANGED <<threads, part_files, mark>>
  /\ UNCHANGED_Station

\* Lines 147-148: the fallback raises too: a second download_failed.
FallbackRaises(j, e) ==
  LET t == threads[j] IN
  /\ t.pc = "fallback_dl"
  /\ Emit(j, <<Event("download_failed", "fallback", 0, t.idx, "")>>)
  /\ threads' = [threads EXCEPT ![j].pc = "entry_head", ![j].idx = @ + 1]
  /\ UNCHANGED <<part_files, mark>>
  /\ UNCHANGED_UI

\* Lines 151-153 and 166: download_completed with the first recorded file, when
\* there is one and the job is not cancelled; then run() returns.
RunPlaylistEnd(j) ==
  LET t == threads[j] IN
  /\ t.pc = "playlist_end"
  /\ threads' = [threads EXCEPT ![j].pc = "done"]
  /\ IF ~t.is_cancelled /\ t.downloaded_files # <<>>
     THEN Emit(j, <<Event("download_completed", "playlist", t.downloaded_files[1],
                           Len(t.playlist_entries), "")>>)
     ELSE NoEmit
  /\ UNCHANGED <<part_files, mark>>
  /\ UNCHANGED_UI

\* QThread.terminate(), requested by cancel() at line 311, takes effect: the
\* thread stops wherever it stands. When it does is up to the platform.
Terminated(j) ==
  /\ threads[j].terminate_req
  /\ isRunning(threads[j])
  /\ threads' = [threads EXCEPT ![j].pc = "killed"]
  /\ NoEmit
  /\ UNCHANGED <<part_files, mark>>
  /\ UNCHANGED_UI


(***************************************************************************)
(* settings.py: the download history.                                      *)
(***************************************************************************)

\* The entry built at lines 86-91; the timestamp is the position in time of the
\* call, counted in calls.
HistoryEntry(url, filename, success, now) ==
  [url |-> url, filename |-> filename, timestamp |-> now, success |-> success]

\* A plausible slip: history[-50:], which keeps the oldest entries.
add_download_history_keep_last(history, entry) ==
  LET h == <<entry>> \o history
  IN  IF Len(h) <= HistoryMax THEN h ELSE SubSeq(h, Len(h) - HistoryMax + 1, Len(h))

\* Lines 93-98: history.insert(0, entry); history = history[:50]; set(...)
add_download_history(history, entry) ==
  Take(<<entry>> \o history, HistoryMax)

\* The call made by on_download_completed and on_download_failed.
RecordHistory(url, filename, success) ==
  LET entry == HistoryEntry(url, filename, success, Len(added) + 1)
  IN  /\ download_history' = add_download_history(download_history, entry)
      /\ added' = <<entry>> \o added
      /\ UNCHANGED <<loader, call, invoked, window>>

(***************************************************************************)
(* widgets.py: DownloadItem.                                               *)
(***************************************************************************)

\* Lines 184-189
on_cancel_clicked(item) ==
  [item EXCEPT !.cancelled = TRUE, !.status = "cancelling"]

\* Lines 191-200
update_progress(item) ==
  IF ~item.cancelled THEN [item EXCEPT !.status = "downloading"] ELSE item

\* Lines 202-218
set_completed(item) ==
  IF ~item.cancelled
  THEN [item EXCEPT !.completed = TRUE, !.status = "completed", !.cancel_visible = FALSE]
  ELSE item

\* Lines 220-225
set_failed(item) ==
  IF ~item.cancelled
  THEN [item EXCEPT !.failed = TRUE, !.status = "failed", !.cancel_visible = FALSE]
  ELSE item

(***************************************************************************)
(* main_window.py: the slots of the UI context.  A slot runs only when the *)
(* UI context is idle, that is, back in its event loop.                    *)
(***************************************************************************)

RemoveJob(s, j) == SelectSeq(s, LAMBDA x : x # j)

\* Lines 441-468: a DownloadItem and a started DownloadThread for the next job.
AddDownload(j, entries) ==
  /\ items' = [items EXCEPT ![j] = NewItem]
  /\ threads' = [threads EXCEPT ![j] = NewThread(entries)]
  /\ download_threads' = Append(download_threads, j)
  /\ downloads_count' = downloads_count + 1

add_download(j, entries) ==
  /\ ui.pc = "idle"
  /\ j = downloads_count + 1
  /\ j \in Jobs
  /\ AddDownload(j, entries)
  /\ UNCHANGED <<emitted, queue, download_history, added, loader, call, invoked, window, ui, part_files, mark>>

\* download_thread.py lines 306-311: the flag is set and a running thread is
\* asked to terminate.
cancel(t) ==
  [t EXCEPT !.is_cancelled = TRUE, !.terminate_req = @ \/ isRunning(t)]

\* Where run() stood when the flag was first set.
Marked(j) ==
  IF mark[j].at >= 0 THEN mark
  ELSE [mark EXCEPT ![j] = [at |-> Len(emitted[j]), pc |-> threads[j].pc,
                            tries |-> threads[j].tries, ticks |-> 0]]

\* A plausible slip: wait() without its timeout.
wait_timed_out_never(waited) == FALSE

\* download_thread.py line 312: self.wait(2000) gives up after 2000 ms.
wait_timed_out(waited) == waited >= CancelWaitMs

\* The user clicks the cancel button of item j: on_cancel_clicked, then
\* cancel_download up to thread.cancel() (main_window.py lines 474-477). The UI
\* context stays inside wait(2000) when the thread is running; otherwise
\* cancel_download runs to its end (lines 479-486).
CancelClicked(j) ==
  /\ ui.pc = "idle"
  /\ items[j].in_list /\ items[j].cancel_visible /\ ~items[j].cancelled
  /\ threads' = [threads EXCEPT ![j] = cancel(@)]
  /\ mark' = Marked(j)
  /\ IF isRunning(threads[j])
     THEN /\ ui' = [pc |-> "cancel_wait", job |-> j, waited |-> 0, active |-> {}]
          /\ items' = [items EXCEPT ![j] = on_cancel_clicked(@)]
          /\ UNCHANGED download_threads
     ELSE /\ items' = [items EXCEPT ![j] = [on_cancel_clicked(@) EXCEPT !.in_list = FALSE]]
          /\ download_threads' = RemoveJob(download_threads, j)
          /\ UNCHANGED ui
  /\ UNCHANGED <<emitted, queue, downloads_count, download_history, added, loader, call, invoked, window, part_files>>

\* 1000 ms pass while the UI context is inside wait(2000).
CancelWaitTick ==
  /\ ui.pc = "cancel_wait"
  /\ isRunning(threads[ui.job])
  /\ ~wait_timed_out(ui.waited)
  /\ ui.waited < MaxClock
  /\ ui' = [ui EXCEPT !.waited = @ + TickMs]
  /\ UNCHANGED <<threads, emitted, queue, items, download_threads, downloads_count,
                 download_history, added, loader, call, invoked, window, part_files, mark>>

\* wait(2000) returns, the thread having stopped or the 2000 ms being over, and
\* cancel_download goes on: the thread leaves download_threads and the item the
\* list (main_window.py lines 479-486).
CancelWaitReturns ==
  /\ ui.pc = "cancel_wait"
  /\ ~isRunning(threads[ui.job]) \/ wait_timed_out(ui.waited)
  /\ ui' = UiIdle
  /\ download_threads' = RemoveJob(download_threads, ui.job)
  /\ items' = [items EXCEPT ![ui.job].in_list = FALSE]
  /\ UNCHANGED <<threads, emitted, queue, downloads_count, download_history, added, loader, call, invoked, window,
                 part_files, mark>>

\* A queued progress_updated reaches DownloadItem.update_progress.
DeliverProgress ==
  /\ ui.pc = "idle"
  /\ queue # <<>>
  /\ Head(queue).ev.sig = "progress_updated"
  /\ queue' = Tail(queue)
  /\ items' = [items EXCEPT ![Head(queue).job] = update_progress(@)]
  /\ UNCHANGED <<threads, emitted, download_threads, downloads_count, download_history,
                 added, loader, call, invoked, window, ui, part_files, mark>>

\* Lines 499-515: a queued download_completed reaches on_download_completed.
on_download_completed ==
  /\ ui.pc = "idle"
  /\ queue # <<>>
  /\ Head(queue).ev.sig = "download_completed"
  /\ queue' = Tail(queue)
  /\ items' = [items EXCEPT ![Head(queue).job] = set_completed(@)]
  /\ RecordHistory(Head(queue).job, Head(queue).ev.kind, TRUE)
  /\ UNCHANGED <<threads, emitted, download_threads, downloads_count, ui, part_files, mark>>

\* Lines 517-532: a queued download_failed reaches on_download_failed.
on_download_failed ==
  /\ ui.pc = "idle"
  /\ queue # <<>>
  /\ Head(queue).ev.sig = "download_failed"
  /\ queue' = Tail(queue)
  /\ RecordHistory(Head(queue).job, "Failed", FALSE)
  /\ items' = [items EXCEPT ![Head(queue).job] = set_failed(@)]
  /\ UNCHANGED <<threads, emitted, download_threads, downloads_count, ui, part_files, mark>>

(***************************************************************************)
(* main_window.py: cancel_all_active_downloads and cancel_all_downloads.   *)
(* The UI context goes through download_threads twice: it cancels every    *)
(* running thread (cancel() waits up to 2000 ms), then waits up to 3000 ms *)
(* for every thread still running and asks it to terminate once more.      *)
(***************************************************************************)

\* The position of thread j in download_threads.
PositionOf(j) == CHOOSE k \in 1..Len(download_threads) : download_threads[k] = j

\* The first position from k on whose thread isRunning(); 0 when there is none.
NextRunning(ts, k) ==
  LET running == { n \in k..Len(download_threads) : isRunning(ts[download_threads[n]]) }
  IN  IF running = {} THEN 0 ELSE CHOOSE n \in running : \A o \in running : n <= o

\* active_downloads = [t for t in self.download_threads if t.isRunning()]
active_downloads ==
  { download_threads[k] : k \in { n \in 1..Len(download_threads) :
                                    isRunning(threads[download_threads[n]]) } }

\* A plausible slip: the final wait without its timeout.
final_wait_timed_out_never(waited) == FALSE

\* Line 599: thread.wait(3000) gives up after 3000 ms.
final_wait_timed_out(waited) == waited >= FinalWaitMs

\* Lines 675-680: every item that is not completed leaves the list.
ClearNotCompleted(its) ==
  [j \in DOMAIN its |-> IF its[j].completed THEN its[j] ELSE [its[j] EXCEPT !.in_list = FALSE]]

\* The second loop of cancel_all_downloads (lines 597-601) from position k on:
\* the UI context enters wait(3000) for the first thread still running; with
\* none left cancel_all_downloads returns: cancel_all_active_downloads clears
\* the list; closeEvent goes on to cleanup_on_exit.
CancelAllSecondLoop(ts, k) ==
  LET n == NextRunning(ts, k) IN
  IF n # 0
  THEN /\ ui' = [ui EXCEPT !.pc = "all_final_wait", !.job = download_threads[n], !.waited = 0]
       /\ UNCHANGED items
  ELSE IF window.pc = "closing"
  THEN /\ ui' = [UiIdle EXCEPT !.pc = "close_cleanup"]
       /\ UNCHANGED items
  ELSE /\ ui' = UiIdle
       /\ items' = ClearNotCompleted(items)

\* The first loop (lines 592-594) from position k on: cancel() of the first
\* running thread, which leaves the UI context in wait(2000); with none left the
\* second loop starts.
CancelAllFirstLoop(k) ==
  LET n == NextRunning(threads, k) IN
  IF n # 0
  THEN LET j == download_threads[n] IN
       /\ threads' = [threads EXCEPT ![j] = cancel(@)]
       /\ mark' = Marked(j)
       /\ ui' = [ui EXCEPT !.pc = "all_cancel_wait", !.job = j, !.waited = 0,
                          !.active = IF ui.pc = "idle" THEN active_downloads ELSE @]
       /\ UNCHANGED items
  ELSE /\ CancelAllSecondLoop(threads, 1)
       /\ UNCHANGED <<threads, mark>>

\* Lines 657-671: the user asks to cancel all downloads, some thread is running
\* and the user confirms; cancel_all_downloads starts.
CancelAllClicked ==
  /\ ui.pc = "idle"
  /\ active_downloads # {}
  /\ CancelAllFirstLoop(1)
  /\ UNCHANGED <<emitted, queue, download_threads, downloads_count, download_history,
                 added, loader, call, invoked, window, part_files>>

\* 1000 ms pass while the UI context is inside a wait of cancel_all_downloads.
CancelAllWaitTick ==
  /\ \/ ui.pc = "all_cancel_wait" /\ ~wait_timed_out(ui.waited)
     \/ ui.pc = "all_final_wait" /\ ~final_wait_timed_out(ui.waited)
  /\ isRunning(threads[ui.job])
  /\ ui.waited < MaxClock
  /\ ui' = [ui EXCEPT !.waited = @ + TickMs]
  /\ UNCHANGED <<threads, emitted, queue, items, download_threads, downloads_count,
                 download_history, added, loader, call, invoked, window, part_files, mark>>

\* wait(2000) inside cancel() returns and the first loop goes on.
CancelAllWaitReturns ==
  /\ ui.pc = "all_cancel_wait"
  /\ ~isRunning(threads[ui.job]) \/ wait_timed_out(ui.waited)
  /\ CancelAllFirstLoop(PositionOf(ui.job) + 1)
  /\ UNCHANGED <<emitted, queue, download_threads, downloads_count, download_history,
                 added, loader, call, invoked, window, part_files>>

\* Lines 599-601: wait(3000) returns; a thread that is still running is asked to
\* terminate, and the second loop goes on.
CancelAllFinalWaitReturns ==
  LET j == ui.job
      ts == IF isRunning(threads[j]) THEN [threads EXCEPT ![j].terminate_req = TRUE]
            ELSE threads
  IN  /\ ui.pc = "all_final_wait"
      /\ ~isRunning(threads[j]) \/ final_wait_timed_out(ui.waited)
      /\ threads' = ts
      /\ CancelAllSecondLoop(ts, PositionOf(j) + 1)
      /\ UNCHANGED <<emitted, queue, download_threads, downloads_count, download_history,
                     added, loader, call, invoked, window, part_files, mark>>

\* Lines 542-550, update_status: what the status bar is given to show.
update_status_counts_handles == [active |-> Len(download_threads), total |-> downloads_count]

update_status ==
  [ active |-> Cardinality(active_downloads), total |-> downloads_count ]

(***************************************************************************)
(* The specification of the job lifecycle.                                 *)
(***************************************************************************)
ThreadStep(j) ==
  \/ RunLoopHead(j)
  \/ RunOpened(j)
  \/ ExtractInfoReturns(j)
  \/ \E e \in ErrorIds : ExtractInfoRaises(j, e)
  \/ RunAfterInfo(j)
  \/ progress_hook_downloading(j)
  \/ progress_hook_finished(j)
  \/ DownloadReturns(j)
  \/ \E e \in ErrorIds : DownloadRaises(j, e)
  \/ RunAfterDownload(j)
  \/ RunExcept(j)
  \/ RunBackoffCheck(j)
  \/ RunBackoffSleep(j)
  \/ RunEntryHead(j)
  \/ EntryReturns(j)
  \/ \E e \in ErrorIds : EntryRaises(j, e)
  \/ FallbackReturns(j)
  \/ \E e \in ErrorIds : FallbackRaises(j, e)
  \/ RunPlaylistEnd(j)
  \/ Terminated(j)

Next ==
  \/ \E j \in Jobs : \E entries \in EntryLists : add_download(j, entries)
  \/ \E j \in Jobs : ThreadStep(j)
  \/ \E j \in Jobs : CancelClicked(j)
  \/ CancelWaitTick
  \/ CancelWaitReturns
  \/ CancelAllClicked
  \/ CancelAllWaitTick
  \/ CancelAllWaitReturns
  \/ CancelAllFinalWaitReturns
  \/ DeliverProgress
  \/ on_download_completed
  \/ on_download_failed

Spec == Init /\ [][Next]_vars


(***************************************************************************)
(* The specification of the history list alone: the list as earlier        *)
(* downloads left it in settings.json, then calls of add_download_history. *)
(***************************************************************************)

\* The list after n calls.
Prefilled(n) == [k \in 1..n |-> HistoryEntry(1, "single", TRUE, n - k + 1)]

HistInit ==
  /\ \E n \in (HistoryMax - MaxAdds)..HistoryMax :
       /\ download_history = Prefilled(n)
       /\ added = Prefilled(n)
  /\ threads = [j \in Jobs |-> NoThread]
  /\ emitted = [j \in Jobs |-> <<>>]
  /\ queue = <<>>
  /\ items = [j \in Jobs |-> NoItem]
  /\ download_threads = <<>>
  /\ downloads_count = 0
  /\ ui = UiIdle
  /\ part_files = {}
  /\ mark = [j \in Jobs |-> NoMark]
  /\ loader = NoLoader
  /\ call = NoCall
  /\ invoked = [j \in Jobs |-> <<>>]
  /\ window = WindowOpen

\* One call of add_download_history, as on_download_completed (file name, True)
\* or on_download_failed ("Failed", False) makes it.
HistAdd(url, filename, success) ==
  /\ Len(added) < HistoryMax + MaxAdds
  /\ RecordHistory(url, filename, success)
  /\ UNCHANGED <<threads, emitted, queue, items, download_threads, downloads_count,
                 ui, part_files, mark>>

HistNext ==
  \E url \in Jobs : \E success \in BOOLEAN :
    HistAdd(url, IF success THEN "single" ELSE "Failed", success)

SpecHist == HistInit /\ [][HistNext]_vars

(***************************************************************************)
(* playlist_loader.py: PlaylistInfoThread, the playlist discovery started  *)
(* by the loading dialog (dialogs.py lines 298-310).                       *)
(***************************************************************************)

\* A raw entry of info['entries']: None, an entry without an id, or an entry
\* with an id. The id of the entry at position k is k.
RawKinds == {"null", "noid", "id"}

RawLists == UNION { [1..n -> RawKinds] : n \in 0..MaxRaw }

\* Line 65: entry is not None and entry.get('id')
IsValidEntry(entry) == entry # "null" /\ entry = "id"

\* Lines 67-77: the entry built from the raw entry at position k.
enhanced_entry(k) == [id |-> k, video_id |-> k, url |-> k, webpage_url |-> k]

\* A signal of the discovery with its arguments (total_items, loaded_items,
\* current_title); info_loaded carries the number of entries as loaded.
LoaderEvent(sig, total, loaded, title) ==
  [sig |-> sig, total |-> total, loaded |-> loaded, title |-> title]

\* current_title: a fixed text, or the title of the raw entry at position k.
Title(text, k) == [text |-> text, of |-> k]

LoaderEmit(ld, ev) == [ld EXCEPT !.log = Append(@, ev)]

UNCHANGED_Downloads ==
  UNCHANGED <<threads, emitted, queue, items, download_threads, downloads_count,
              download_history, added, ui, part_files, mark, call, invoked, window>>

\* dialogs.py lines 298-304: start_loading.
start_loading ==
  /\ loader.pc = "none"
  /\ loader' = [loader EXCEPT !.pc = "begin"]
  /\ UNCHANGED_Downloads

\* Lines 43-46: the first cancel check, then progress_updated(0, 0, "Discovering
\* playlist...").
LoaderBegin ==
  /\ loader.pc = "begin"
  /\ loader' =
       IF loader.is_cancelled THEN [loader EXCEPT !.pc = "done"]
       ELSE LoaderEmit([loader EXCEPT !.pc = "extract"],
                       LoaderEvent("progress_updated", 0, 0, Title("Discovering playlist...", 0)))
  /\ UNCHANGED_Downloads

\* Line 48: extract_info returns a playlist with the raw entries.
LoaderExtractPlaylist(raw) ==
  /\ loader.pc = "extract"
  /\ loader' = [loader EXCEPT !.pc = "after_extract", !.entries = raw]
  /\ UNCHANGED_Downloads

\* Line 48: extract_info returns the info of a single video.
LoaderExtractSingle ==
  /\ loader.pc = "extract"
  /\ loader' = [loader EXCEPT !.pc = "after_extract_single"]
  /\ UNCHANGED_Downloads

\* Line 48: extract_info raises.
LoaderExtractRaises ==
  /\ loader.pc = "extract"
  /\ loader' = [loader EXCEPT !.pc = "except"]
  /\ UNCHANGED_Downloads

\* Lines 50-59 and 93-101: the second cancel check; a playlist goes to its entry
\* loop, a single video is wrapped in a one-entry playlist and info_loaded is
\* emitted when the flag is not set.
LoaderAfterExtract ==
  /\ loader.pc \in {"after_extract", "after_extract_single"}
  /\ loader' =
       IF loader.is_cancelled THEN [loader EXCEPT !.pc = "done"]
       ELSE IF loader.pc = "after_extract"
            THEN [loader EXCEPT !.pc = "entry_head", !.i = 1, !.valid_entries = <<>>,
                                !.loaded_count = 0]
            ELSE [loader EXCEPT !.pc = "single"]
  /\ UNCHANGED_Downloads

\* Lines 95-101
LoaderSingle ==
  /\ loader.pc = "single"
  /\ loader' =
       IF ~loader.is_cancelled
       THEN LoaderEmit([loader EXCEPT !.pc = "done"], LoaderEvent("info_loaded", 1, 1, Title("single", 0)))
       ELSE [loader EXCEPT !.pc = "done"]
  /\ UNCHANGED_Downloads

\* Lines 61-65: the head of the entry loop: the cancel check, then the test of
\* the entry; an entry that is None or has no id is passed over.
LoaderEntryHead ==
  /\ loader.pc = "entry_head"
  /\ loader' =
       IF loader.i > Len(loader.entries) THEN [loader EXCEPT !.pc = "finalize"]
       ELSE IF loader.is_cancelled THEN [loader EXCEPT !.pc = "done"]
       ELSE IF IsValidEntry(loader.entries[loader.i]) THEN [loader EXCEPT !.pc = "entry_add"]
       ELSE [loader EXCEPT !.i = @ + 1]
  /\ UNCHANGED_Downloads

\* A plausible slip: loaded_count counts every raw entry.
LoaderEntryAdd_counts_position ==
  /\ loader.pc = "entry_add"
  /\ loader' =
       LoaderEmit([loader EXCEPT !.pc = "entry_head", !.i = @ + 1,
                                 !.valid_entries = Append(@, enhanced_entry(loader.i)),
                                 !.loaded_count = loader.i],
                  LoaderEvent("progress_updated", Len(loader.entries), loader.i,
                             Title("entry", loader.i)))
  /\ UNCHANGED_Downloads

\* Lines 67-85: the entry is appended, loaded_count grows by one and
\* progress_updated(total_entries, loaded_count, title) is emitted.
LoaderEntryAdd ==
  /\ loader.pc = "entry_add"
  /\ loader' =
       LoaderEmit([loader EXCEPT !.pc = "entry_head", !.i = @ + 1,
                                 !.valid_entries = Append(@, enhanced_entry(loader.i)),
                                 !.loaded_count = @ + 1],
                  LoaderEvent("progress_updated", Len(loader.entries),
                              loader.loaded_count + 1, Title("entry", loader.i)))
  /\ UNCHANGED_Downloads

\* Lines 88-90: info['entries'] = valid_entries, then the last cancel check.
LoaderFinalize ==
  /\ loader.pc = "finalize"
  /\ loader' = [loader EXCEPT !.pc = IF loader.is_cancelled THEN "done" ELSE "finalize_progress"]
  /\ UNCHANGED_Downloads

\* Line 91
LoaderFinalizeProgress ==
  /\ loader.pc = "finalize_progress"
  /\ loader' =
       LoaderEmit([loader EXCEPT !.pc = "finalize_loaded"],
                  LoaderEvent("progress_updated", Len(loader.entries), loader.loaded_count,
                              Title("Finalizing...", 0)))
  /\ UNCHANGED_Downloads

\* Line 92
LoaderFinalizeLoaded ==
  /\ loader.pc = "finalize_loaded"
  /\ loader' =
       LoaderEmit([loader EXCEPT !.pc = "done"],
                  LoaderEvent("info_loaded", Len(loader.entries), Len(loader.valid_entries),
                              Title("playlist", 0)))
  /\ UNCHANGED_Downloads

\* Lines 103-105
LoaderExcept ==
  /\ loader.pc = "except"
  /\ loader' =
       IF ~loader.is_cancelled
       THEN LoaderEmit([loader EXCEPT !.pc = "done"], LoaderEvent("loading_failed", 0, 0, Title("error", 0)))
       ELSE [loader EXCEPT !.pc = "done"]
  /\ UNCHANGED_Downloads

\* dialogs.py lines 306-310 and playlist_loader.py lines 108-110: the user
\* cancels the loading while the thread is running.
cancel_loading ==
  /\ loader.pc \notin {"none", "done"}
  /\ ~loader.is_cancelled
  /\ loader' = [loader EXCEPT !.is_cancelled = TRUE, !.at = Len(loader.log)]
  /\ UNCHANGED_Downloads

LoaderNext ==
  \/ start_loading
  \/ LoaderBegin
  \/ \E raw \in RawLists : LoaderExtractPlaylist(raw)
  \/ LoaderExtractSingle
  \/ LoaderExtractRaises
  \/ LoaderAfterExtract
  \/ LoaderSingle
  \/ LoaderEntryHead
  \/ LoaderEntryAdd
  \/ LoaderFinalize
  \/ LoaderFinalizeProgress
  \/ LoaderFinalizeLoaded
  \/ LoaderExcept
  \/ cancel_loading

SpecLoader == Init /\ [][LoaderNext]_vars

(***************************************************************************)
(* Two single-item jobs downloading into the same directory: the state     *)
(* after two calls of add_download with the same path, then the steps of   *)
(* the two threads.  The byte-range error (416) is the one error raised.   *)
(***************************************************************************)
SharedJobs == {1, 2}

SharedInit ==
  /\ threads = [j \in SharedJobs |-> NewThread(<<>>)]
  /\ emitted = [j \in SharedJobs |-> <<>>]
  /\ queue = <<>>
  /\ items = [j \in SharedJobs |-> NewItem]
  /\ download_threads = <<1, 2>>
  /\ downloads_count = 2
  /\ download_history = <<>>
  /\ added = <<>>
  /\ ui = UiIdle
  /\ part_files = {}
  /\ mark = [j \in SharedJobs |-> NoMark]
  /\ loader = NoLoader
  /\ call = NoCall
  /\ invoked = [j \in SharedJobs |-> <<>>]
  /\ window = WindowOpen

SharedStep(j) ==
  \/ RunLoopHead(j)
  \/ RunOpened(j)
  \/ ExtractInfoReturns(j)
  \/ RunAfterInfo(j)
  \/ progress_hook_downloading(j)
  \/ progress_hook_finished(j)
  \/ DownloadReturns(j)
  \/ DownloadRaises(j, "E416")
  \/ RunAfterDownload(j)
  \/ RunExcept(j)
  \/ RunBackoffCheck(j)
  \/ RunBackoffSleep(j)

SharedNext == \E j \in SharedJobs : SharedStep(j)

SpecShared == SharedInit /\ [][SharedNext]_vars

(***************************************************************************)
(* The specification of the attempt loop alone: one single-item job that   *)
(* is never cancelled, its calls raising any of the errors of the model.   *)
(***************************************************************************)
ErrorsInit ==
  /\ threads = [j \in Jobs |-> NewThread(<<>>)]
  /\ emitted = [j \in Jobs |-> <<>>]
  /\ queue = <<>>
  /\ items = [j \in Jobs |-> NewItem]
  /\ download_threads = <<1>>
  /\ downloads_count = 1
  /\ download_history = <<>>
  /\ added = <<>>
  /\ ui = UiIdle
  /\ part_files = {}
  /\ mark = [j \in Jobs |-> NoMark]
  /\ loader = NoLoader
  /\ call = NoCall
  /\ invoked = [j \in Jobs |-> <<>>]
  /\ window = WindowOpen

ErrorsStep(j) ==
  \/ RunLoopHead(j)
  \/ RunOpened(j)
  \/ ExtractInfoReturns(j)
  \/ \E e \in AllErrorIds : ExtractInfoRaises(j, e)
  \/ RunAfterInfo(j)
  \/ progress_hook_downloading(j)
  \/ progress_hook_finished(j)
  \/ DownloadReturns(j)
  \/ \E e \in AllErrorIds : DownloadRaises(j, e)
  \/ RunAfterDownload(j)
  \/ RunExcept(j)
  \/ RunBackoffCheck(j)
  \/ RunBackoffSleep(j)

ErrorsNext == \E j \in Jobs : ErrorsStep(j)

SpecErrors == ErrorsInit /\ [][ErrorsNext]_vars

(***************************************************************************)
(* main_window.py: closeEvent and cleanup_on_exit, with one single-item    *)
(* job started.                                                            *)
(***************************************************************************)

\* The answers to the question of closeEvent: cancel all downloads and exit,
\* continue the downloads in the background, return to the application.
Replies == {"Yes", "No", "Cancel"}

\* Lines 633-653: every "*.part" and "*.tmp" file of the download directory is
\* unlinked, whichever job it belongs to.
cleanup_temp_files(files) == {}

\* Lines 552-588: the user closes the window. With no thread running the
\* window closes after cleanup_on_exit. Otherwise the user is asked: on Cancel
\* the event is ignored; on Yes cancel_all_downloads starts, the cleanup
\* coming after it; on No the cleanup is run at once and the window closes.
closeEvent(reply) ==
  /\ window.pc = "open"
  /\ ui.pc = "idle"
  /\ IF active_downloads = {}
     THEN /\ window' = [window EXCEPT !.pc = "closed"]
          /\ part_files' = cleanup_temp_files(part_files)
          /\ UNCHANGED <<threads, mark, ui, items>>
     ELSE IF reply = "Cancel"
     THEN /\ window' = [window EXCEPT !.reply = reply]
          /\ UNCHANGED <<threads, mark, ui, items, part_files>>
     ELSE IF reply = "Yes"
     THEN /\ window' = [window EXCEPT !.pc = "closing", !.reply = reply]
          /\ CancelAllFirstLoop(1)
          /\ UNCHANGED part_files
     ELSE /\ window' = [window EXCEPT !.pc = "closed", !.reply = reply]
          /\ part_files' = cleanup_temp_files(part_files)
          /\ UNCHANGED <<threads, mark, ui, items>>
  /\ UNCHANGED <<emitted, queue, download_threads, downloads_count, download_history,
                 added, loader, call, invoked>>

\* Lines 586-588, after cancel_all_downloads has returned: cleanup_on_exit,
\* then the window closes.
cleanup_on_exit ==
  /\ ui.pc = "close_cleanup"
  /\ ui' = UiIdle
  /\ window' = [window EXCEPT !.pc = "closed"]
  /\ part_files' = cleanup_temp_files(part_files)
  /\ UNCHANGED <<threads, emitted, queue, items, download_threads, downloads_count,
                 download_history, added, loader, call, invoked, mark>>

CloseStep(j) ==
  \/ RunLoopHead(j)
  \/ RunOpened(j)
  \/ ExtractInfoReturns(j)
  \/ \E e \in ErrorIds : ExtractInfoRaises(j, e)
  \/ RunAfterInfo(j)
  \/ progress_hook_downloading(j)
  \/ progress_hook_finished(j)
  \/ DownloadReturns(j)
  \/ \E e \in ErrorIds : DownloadRaises(j, e)
  \/ RunAfterDownload(j)
  \/ RunExcept(j)
  \/ RunBackoffCheck(j)
  \/ RunBackoffSleep(j)
  \/ Terminated(j)

CloseNext ==
  \/ \E j \in Jobs : CloseStep(j)
  \/ \E reply \in Replies : closeEvent(reply)
  \/ CancelAllWaitTick
  \/ CancelAllWaitReturns
  \/ CancelAllFinalWaitReturns
  \/ cleanup_on_exit

SpecClose == ErrorsInit /\ [][CloseNext]_vars

(***************************************************************************)
(* main_window.py: start_downloads and handle_playlist_url, with the       *)
(* loading dialog and the selection dialog of dialogs.py.  The UI context  *)
(* goes through the submitted URLs; inside a dialog it delivers the        *)
(* signals of the PlaylistInfoThread to the slots of the dialog.           *)
(***************************************************************************)
StartJobs == 1..MaxUrls

\* The lines a user submits.
SingleLine == <<"h","t","t","p","s",":","/","/","v",".","i","o","/","w","?","v","=","1">>
ListLine == <<"h","t","t","p","s",":","/","/","v",".","i","o","/","w","?","v","=","1","&","l","i","s","t","=","2">>
PlaylistLine == <<"h","t","t","p","s",":","/","/","v",".","i","o","/","P","l","a","y","L","i","s","t","/","3">>
FtpLine == <<"f","t","p",":","/","/","v",".","i","o","/","w","?","l","i","s","t","=","2">>
ShortLine == <<"h","t","t","p",":","/","/","v",".","i">>

Lines == {SingleLine, ListLine, PlaylistLine, FtpLine, ShortLine}

Submissions == UNION { [1..n -> Lines] : n \in 0..MaxUrls }

\* line.startswith(prefix)
StartsWith(prefix, s) == Len(s) >= Len(prefix) /\ SubSeq(s, 1, Len(prefix)) = prefix

\* Line 377: line.startswith(('http://', 'https://')) and len(line) > 10
IsValidUrl(line) ==
  /\ \/ StartsWith(<<"h","t","t","p",":","/","/">>, line)
     \/ StartsWith(<<"h","t","t","p","s",":","/","/">>, line)
  /\ Len(line) > 10

\* Lines 366-380
get_urls(lines) == SelectSeq(lines, IsValidUrl)

\* Lines 382-384: 'list=' in url or 'playlist' in url.lower()
is_playlist_url(url) ==
  \/ Contains(<<"l","i","s","t","=">>, url)
  \/ Contains(<<"p","l","a","y","l","i","s","t">>, Lower(url))

\* A plausible slip: the "no playlist" box is not looked at.
expands_whatever_the_box(url, no_playlist) == is_playlist_url(url)

\* Line 410: not no_playlist and self.is_playlist_url(url)
expands(url, no_playlist) == ~no_playlist /\ is_playlist_url(url)

\* What became of a URL: whether the discovery ran for it, how its handling
\* ended, and the job started for it (0 for none).
Handled(url, discovery, outcome, job) ==
  [url |-> url, discovery |-> discovery, outcome |-> outcome, job |-> job]

\* The raw playlists of the discoveries started by start_downloads.
FoundLists == UNION { [1..n -> RawKinds] : n \in 0..MaxFound }

\* The entries handed to DownloadThread, as run() reads them: the entries
\* built by the discovery carry a url and an id.
AsPlaylistEntries(selected) == [k \in 1..Len(selected) |-> [url |-> TRUE, id |-> TRUE]]

\* The rows that can be checked in the selection dialog: every subsequence of
\* the entries (dialogs.py lines 193-204).
Selections(entries) ==
  { SelectSeq([k \in 1..Len(entries) |-> [row |-> k, entry |-> entries[k]]],
              LAMBDA r : r.row \in rows) : rows \in SUBSET (1..Len(entries)) }

StartInit ==
  /\ threads = [j \in StartJobs |-> NoThread]
  /\ emitted = [j \in StartJobs |-> <<>>]
  /\ queue = <<>>
  /\ items = [j \in StartJobs |-> NoItem]
  /\ download_threads = <<>>
  /\ downloads_count = 0
  /\ download_history = <<>>
  /\ added = <<>>
  /\ ui = UiIdle
  /\ part_files = {}
  /\ mark = [j \in StartJobs |-> NoMark]
  /\ loader = NoLoader
  /\ call = NoCall
  /\ invoked = [j \in StartJobs |-> <<>>]
  /\ window = WindowOpen

UNCHANGED_Jobs ==
  UNCHANGED <<threads, items, download_threads, downloads_count>>

UNCHANGED_StartRest ==
  UNCHANGED <<emitted, queue, download_history, added, ui, part_files, mark, call, invoked>>

\* The handling of the URL at the head of urls has ended.
NextUrl(w, discovery, outcome, job) ==
  [w EXCEPT !.pc = "for_url", !.urls = Tail(@),
            !.handled = Append(@, Handled(Head(w.urls), discovery, outcome, job))]

\* Lines 386-402: the user presses the download button: no URL, or no download
\* directory, and start_downloads returns after a warning; otherwise it goes
\* through the URLs.
start_downloads(lines, path_exists, no_playlist) ==
  LET urls == get_urls(lines) IN
  /\ window.pc = "open" /\ ~window.submitted
  /\ ui.pc = "idle"
  /\ window' = [window EXCEPT !.submitted = TRUE, !.lines = lines,
                              !.path_exists = path_exists, !.no_playlist = no_playlist,
                              !.urls = IF urls = <<>> \/ ~path_exists THEN <<>> ELSE urls,
                              !.pc = IF urls = <<>> \/ ~path_exists THEN "open" ELSE "for_url"]
  /\ UNCHANGED loader
  /\ UNCHANGED_Jobs
  /\ UNCHANGED_StartRest

\* Lines 405-418: the next URL: the loading dialog is opened for a playlist URL
\* (its __init__ starts the PlaylistInfoThread, dialogs.py line 220); any other
\* URL goes to add_download; after the last URL the input is cleared.
StartForUrl ==
  /\ window.pc = "for_url"
  /\ IF window.urls = <<>>
     THEN /\ window' = [window EXCEPT !.pc = "open"]
          /\ UNCHANGED loader
          /\ UNCHANGED_Jobs
     ELSE IF expands(Head(window.urls), window.no_playlist)
     THEN /\ window' = [window EXCEPT !.pc = "loading", !.seen = 0, !.playlist_info = <<>>]
          /\ loader' = [NoLoader EXCEPT !.pc = "begin"]
          /\ UNCHANGED_Jobs
     ELSE /\ AddDownload(downloads_count + 1, <<>>)
          /\ window' = NextUrl(window, FALSE, "single", downloads_count + 1)
          /\ UNCHANGED loader
  /\ UNCHANGED_StartRest

\* dialogs.py lines 312-342: a progress_updated of the discovery reaches the
\* loading dialog.
on_progress_updated ==
  /\ window.pc = "loading"
  /\ window.seen < Len(loader.log)
  /\ loader.log[window.seen + 1].sig = "progress_updated"
  /\ window' = [window EXCEPT !.seen = @ + 1]
  /\ UNCHANGED loader
  /\ UNCHANGED_Jobs
  /\ UNCHANGED_StartRest

\* dialogs.py lines 344-351: info_loaded reaches the dialog: playlist_info is
\* stored and accept is due in 500 ms.
on_info_loaded ==
  /\ window.pc = "loading"
  /\ window.seen < Len(loader.log)
  /\ loader.log[window.seen + 1].sig = "info_loaded"
  /\ window' = [window EXCEPT !.seen = @ + 1, !.pc = "accept_due",
                              !.playlist_info =
                                 IF loader.log[window.seen + 1].title.text = "single"
                                 THEN << enhanced_entry(0) >>
                                 ELSE loader.valid_entries]
  /\ UNCHANGED loader
  /\ UNCHANGED_Jobs
  /\ UNCHANGED_StartRest

\* dialogs.py lines 353-356 and main_window.py line 424: loading_failed reaches
\* the dialog, which is rejected: handle_playlist_url returns.
on_loading_failed ==
  /\ window.pc = "loading"
  /\ window.seen < Len(loader.log)
  /\ loader.log[window.seen + 1].sig = "loading_failed"
  /\ window' = NextUrl([window EXCEPT !.seen = @ + 1], TRUE, "failed", 0)
  /\ UNCHANGED loader
  /\ UNCHANGED_Jobs
  /\ UNCHANGED_StartRest

\* dialogs.py lines 306-310: the user cancels the loading dialog, also during
\* the 500 ms before accept: a running thread is cancelled and the dialog is
\* rejected: handle_playlist_url returns.
cancel_loading_dialog ==
  /\ window.pc \in {"loading", "accept_due"}
  /\ loader' = IF loader.pc \notin {"none", "done"}
               THEN [loader EXCEPT !.is_cancelled = TRUE,
                                   !.at = IF loader.at >= 0 THEN @ ELSE Len(loader.log)]
               ELSE loader
  /\ window' = NextUrl(window, TRUE, "cancelled", 0)
  /\ UNCHANGED_Jobs
  /\ UNCHANGED_StartRest

\* dialogs.py line 351 and main_window.py lines 424-430, 438-439: the 500 ms are
\* over and the dialog is accepted: the selection dialog opens when
\* playlist_info has entries; otherwise a warning and handle_playlist_url returns.
LoadingAccepted ==
  /\ window.pc = "accept_due"
  /\ window' = IF window.playlist_info # <<>>
               THEN [window EXCEPT !.pc = "selecting"]
               ELSE NextUrl(window, TRUE, "empty", 0)
  /\ UNCHANGED loader
  /\ UNCHANGED_Jobs
  /\ UNCHANGED_StartRest

\* main_window.py lines 430-437: the selection dialog is accepted with the
\* rows checked: add_playlist_download when some entry is selected.
SelectionAccepted(selected) ==
  /\ window.pc = "selecting"
  /\ IF selected # <<>>
     THEN /\ AddDownload(downloads_count + 1, AsPlaylistEntries(selected))
          /\ window' = NextUrl(window, TRUE, "playlist", downloads_count + 1)
     ELSE /\ window' = NextUrl(window, TRUE, "none_selected", 0)
          /\ UNCHANGED_Jobs
  /\ UNCHANGED loader
  /\ UNCHANGED_StartRest

\* main_window.py line 430: the selection dialog is closed without accepting.
SelectionRejected ==
  /\ window.pc = "selecting"
  /\ window' = NextUrl(window, TRUE, "selection_rejected", 0)
  /\ UNCHANGED loader
  /\ UNCHANGED_Jobs
  /\ UNCHANGED_StartRest

StartNext ==
  \/ \E lines \in Submissions : \E path_exists, no_playlist \in BOOLEAN :
       start_downloads(lines, path_exists, no_playlist)
  \/ StartForUrl
  \/ on_progress_updated
  \/ on_info_loaded
  \/ on_loading_failed
  \/ cancel_loading_dialog
  \/ LoadingAccepted
  \/ \E selected \in Selections(window.playlist_info) : SelectionAccepted(selected)
  \/ SelectionRejected
  \/ LoaderBegin
  \/ \E raw \in FoundLists : LoaderExtractPlaylist(raw)
  \/ LoaderExtractSingle
  \/ LoaderExtractRaises
  \/ LoaderAfterExtract
  \/ LoaderSingle
  \/ LoaderEntryHead
  \/ LoaderEntryAdd
  \/ LoaderFinalize
  \/ LoaderFinalizeProgress
  \/ LoaderFinalizeLoaded
  \/ LoaderExcept

SpecStart == StartInit /\ [][StartNext]_vars

(***************************************************************************)
(* The functions of DownloadThread that compute a value from their         *)
(* arguments alone, each called on the arguments of a bounded set.         *)
(***************************************************************************)

UNCHANGED_Program ==
  UNCHANGED <<threads, emitted, queue, items, download_threads, downloads_count,
              download_history, added, ui, part_files, mark, loader, invoked, window>>

\* Error texts that hold none of the retryable fragments.
other_errors ==
  << <<"v","i","d","e","o"," ","u","n","a","v","a","i","l","a","b","l","e">>,
     <<"h","t","t","p"," ","e","r","r","o","r"," ","4","0","4">>,
     <<"p","r","i","v","a","t","e"," ","v","i","d","e","o">> >>

\* n characters around the text of a message.
Pad(n) == [k \in 1..n |-> "-"]

\* A text as it is (lower case), in upper case, or capitalised.
InCase(s, c) ==
  CASE c = "lower" -> s
    [] c = "upper" -> Upper(s)
    [] OTHER -> [k \in 1..Len(s) |-> IF k = 1 THEN UpperChar(s[k]) ELSE s[k]]

\* The messages is_retryable_error is called on: every retryable fragment and
\* every other text, in three spellings, inside up to MaxPad characters on each
\* side, and the messages of the errors of the model.
Messages ==
  { Pad(n) \o InCase(w, c) \o Pad(m) :
      n \in 0..MaxPad, m \in 0..MaxPad, c \in {"lower", "upper", "capital"},
      w \in { retryable_errors[k] : k \in 1..Len(retryable_errors) }
              \cup { other_errors[k] : k \in 1..Len(other_errors) } }
    \cup { ErrorText(e) : e \in ErrorIds }

\* is_retryable_error(error_msg) is called.
call_is_retryable_error(error_msg) ==
  /\ call.fn = "none"
  /\ call' = [fn |-> "is_retryable_error", arg |-> error_msg,
              out |-> is_retryable_error(error_msg)]
  /\ UNCHANGED_Program

KB == 1024
MB == 1024 * 1024
GB == 1024 * 1024 * 1024

\* n / d rounded to an integer as the format specifications ".0f" and ".1f"
\* round a value that a float holds exactly: to the nearest, a tie to the even.
RoundHalfEven(n, d) ==
  LET q == n \div d
      r == n % d
  IN  IF 2 * r < d THEN q
      ELSE IF 2 * r > d THEN q + 1
      ELSE IF q % 2 = 0 THEN q ELSE q + 1

\* f"{b / unit:.1f}": the number shown, in tenths. b / unit is exact in a float
\* for the byte counts and the units (powers of two) of this module.
OneDecimal(b, unit) == (b \div unit) * 10 + RoundHalfEven((b % unit) * 10, unit)

\* A formatted number: its digits read as an integer, the count of decimal
\* places among them, and the unit written after it.
Shown(digits, decimals, unit) == [digits |-> digits, decimals |-> decimals, unit |-> unit]

\* Lines 273-280
format_speed(speed) ==
  IF speed < KB THEN Shown(speed, 0, "B/s")
  ELSE IF speed < MB THEN Shown(OneDecimal(speed, KB), 1, "KB/s")
  ELSE Shown(OneDecimal(speed, MB), 1, "MB/s")

\* Lines 282-291
format_file_size(size) ==
  IF size < KB THEN Shown(size, 0, "B")
  ELSE IF size < MB THEN Shown(OneDecimal(size, KB), 1, "KB")
  ELSE IF size < GB THEN Shown(OneDecimal(size, MB), 1, "MB")
  ELSE Shown(OneDecimal(size, GB), 1, "GB")

\* The byte counts the formatting functions are called on: up to MaxDelta bytes
\* on each side of every bracket limit.
ByteCounts ==
  { b \in UNION { (base - MaxDelta)..(base + MaxDelta) : base \in {0, KB, MB, GB} } : b >= 0 }

call_format_speed(speed) ==
  /\ call.fn = "none"
  /\ call' = [fn |-> "format_speed", arg |-> speed, out |-> format_speed(speed)]
  /\ UNCHANGED_Program

call_format_file_size(size) ==
  /\ call.fn = "none"
  /\ call' = [fn |-> "format_file_size", arg |-> size, out |-> format_file_size(size)]
  /\ UNCHANGED_Program

(***************************************************************************)
(* Float arithmetic.  A float in [1, 2] times 2^-e is held as its 53       *)
(* significant bits: a leading digit and four limbs of 13 bits each, the   *)
(* most significant first.  Division and multiplication round to the       *)
(* nearest float, a tie to the even one, as Python's floats do.            *)
(***************************************************************************)
Limb == 8192

RECURSIVE ShiftFor(_, _)
\* The least e with n * 2^e >= d, for 0 < n <= d.
ShiftFor(n, d) == IF n >= d THEN 0 ELSE 1 + ShiftFor(2 * n, d)

RECURSIVE Pow2(_)
Pow2(e) == IF e = 0 THEN 1 ELSE 2 * Pow2(e - 1)

RECURSIVE Carried(_, _)
\* The limbs brought back below 8192, the carry going to the limb before; the
\* first element of the result is the carry out of the first limb.
Carried(limbs, carry) ==
  IF limbs = <<>> THEN <<carry>>
  ELSE LET n == Len(limbs)
           v == limbs[n] + carry
       IN  Carried(SubSeq(limbs, 1, n - 1), v \div Limb) \o <<v % Limb>>

\* The float n / d for integers 0 < n <= d < 2^18: the leading 1, then 52 bits
\* of the quotient of n * 2^e by d, 13 at a time, and the rounding that the
\* remainder asks for.
FloatDiv(n, d) ==
  LET e == ShiftFor(n, d)
      r0 == n * Pow2(e) - d
      g1 == (r0 * Limb) \div d
      r1 == (r0 * Limb) % d
      g2 == (r1 * Limb) \div d
      r2 == (r1 * Limb) % d
      g3 == (r2 * Limb) \div d
      r3 == (r2 * Limb) % d
      g4 == (r3 * Limb) \div d
      r4 == (r3 * Limb) % d
      up == IF 2 * r4 > d \/ (2 * r4 = d /\ g4 % 2 = 1) THEN 1 ELSE 0
      m == Carried(<<g1, g2, g3, g4>>, up)
  IN  [top |-> 1 + m[1], limbs |-> SubSeq(m, 2, 5), e |-> e]

\* The float x * 100: the exact product, of which the 53 leading bits are kept
\* and the 6 or 7 bits after them rounded away.
FloatTimes100(x) ==
  LET exact == Carried([k \in 1..4 |-> x.limbs[k] * 100], 0)
      top == x.top * 100 + exact[1]
      drop == IF top < 128 THEN 64 ELSE 128
      last == exact[5]
      kept == last \div drop
      rest == last % drop
      up == IF 2 * rest > drop \/ (2 * rest = drop /\ kept % 2 = 1) THEN 1 ELSE 0
      m == Carried(<<exact[2], exact[3], exact[4], (kept + up) * drop>>, 0)
  IN  [top |-> top + m[1], limbs |-> SubSeq(m, 2, 5), e |-> x.e]

\* int(x): the bits of x before the binary point.
FloatToInt(x) == x.top \div Pow2(x.e)

\* A key of the progress dictionary that is absent, or None.
Missing == -1

\* d.get('total_bytes') or d.get('total_bytes_estimate', 0)
TotalOf(d) ==
  IF d.total_bytes # Missing /\ d.total_bytes # 0 THEN d.total_bytes
  ELSE IF d.total_bytes_estimate = Missing THEN 0 ELSE d.total_bytes_estimate

\* Lines 251-259: progress = int((downloaded / total) * 100), 0 without a total;
\* for downloaded <= total.
progress_percent(d) ==
  LET downloaded == d.downloaded_bytes
      total == TotalOf(d)
  IN  IF total > 0
      THEN IF downloaded = 0 THEN 0
           ELSE FloatToInt(FloatTimes100(FloatDiv(downloaded, total)))
      ELSE 0

\* The progress dictionaries of the calls: the total in total_bytes, or in
\* total_bytes_estimate with total_bytes absent or 0, or in neither; the bytes
\* downloaded never above the total.
ProgressDicts ==
  UNION { { [downloaded_bytes |-> n, total_bytes |-> t, total_bytes_estimate |-> Missing] :
              t \in n..MaxBytes }
          \cup
          { [downloaded_bytes |-> n, total_bytes |-> t, total_bytes_estimate |-> est] :
              t \in {Missing, 0}, est \in {Missing} \cup n..MaxBytes }
          : n \in 0..MaxBytes }

call_progress_hook(d) ==
  /\ call.fn = "none"
  /\ call' = [fn |-> "progress_hook", arg |-> d, out |-> progress_percent(d)]
  /\ UNCHANGED_Program

\* A formatted duration: its numbers with their units, in the order written.
Part(n, unit) == [n |-> n, unit |-> unit]

\* f"{x:.0f}" of a whole number x.
NoDecimal(x) == RoundHalfEven(x, 1)

\* A plausible slip: the limits of the brackets taken one second late.
format_eta_limits_late(eta) ==
  IF eta <= 60 THEN << Part(NoDecimal(eta), "s") >>
  ELSE IF eta <= 3600
       THEN << Part(NoDecimal(eta \div 60), "m"), Part(NoDecimal(eta % 60), "s") >>
       ELSE << Part(NoDecimal(eta \div 3600), "h"), Part(NoDecimal((eta % 3600) \div 60), "m") >>

\* Lines 293-304
format_eta(eta) ==
  IF eta < 60 THEN << Part(NoDecimal(eta), "s") >>
  ELSE IF eta < 3600
       THEN LET minutes == eta \div 60
                seconds == eta % 60
            IN  << Part(NoDecimal(minutes), "m"), Part(NoDecimal(seconds), "s") >>
       ELSE LET hours == eta \div 3600
                minutes == (eta % 3600) \div 60
            IN  << Part(NoDecimal(hours), "h"), Part(NoDecimal(minutes), "m") >>

\* The whole numbers of seconds format_eta is called on.
EtaValues == 0..MaxEta

call_format_eta(eta) ==
  /\ call.fn = "none"
  /\ call' = [fn |-> "format_eta", arg |-> eta, out |-> format_eta(eta)]
  /\ UNCHANGED_Program


CallsNext ==
  \/ \E error_msg \in Messages : call_is_retryable_error(error_msg)
  \/ \E speed \in ByteCounts : call_format_speed(speed)
  \/ \E size \in ByteCounts : call_format_file_size(size)
  \/ \E d \in ProgressDicts : call_progress_hook(d)
  \/ \E eta \in EtaValues : call_format_eta(eta)

SpecCalls == Init /\ [][CallsNext]_vars

(***************************************************************************)
(* Properties.                                                             *)
(***************************************************************************)
Terminal(e) == e.sig \in {"download_completed", "download_failed"}

IsRetry(e) == e.sig = "retry_status"

Count(s, Test(_)) == Len(SelectSeq(s, Test))

\* The signals emitted after the cancel flag was set.
AfterCancel(j) == SubSeq(emitted[j], mark[j].at + 1, Len(emitted[j]))

\* run() has returned by itself and the job was never cancelled.
Returned(j) == threads[j].pc = "done" /\ ~threads[j].is_cancelled


\* C1: a job that is never cancelled and whose run() has returned has emitted
\* exactly one terminal signal (download_completed or download_failed) in all.
C1_ExactlyOneTerminalEvent ==
  \A j \in Jobs : Returned(j) => Count(emitted[j], Terminal) = 1

\* C2: a single-item job, never cancelled, whose every attempt raised a
\* retryable error (so that it ended with the final failure of a retryable
\* error) has made max_retries + 1 = 4 attempts and emitted exactly
\* max_retries = 3 retry_status signals before its download_failed.
C2_FourAttemptsThreeRetrying ==
  \A j \in Jobs :
    LET log == emitted[j] IN
    ( /\ Returned(j)
      /\ threads[j].playlist_entries = <<>>
      /\ log # <<>>
      /\ log[Len(log)].kind = "final"
      /\ Retryable[log[Len(log)].msg] )
    => /\ threads[j].tries = max_retries + 1
       /\ Count(log, IsRetry) = max_retries
       /\ Count(log, Terminal) = 1

\* C3: once is_cancelled is set, the job emits no download_completed and no
\* download_failed, wherever run() stood when the flag was set.
C3_NoTerminalEventAfterCancel ==
  \A j \in Jobs : mark[j].at >= 0 => Count(AfterCancel(j), Terminal) = 0

\* C4: a job cancelled during the backoff between two attempts (at the cancel
\* check of a backoff turn or inside its msleep(1000)) emits no signal at all
\* afterwards, starts no further attempt, and leaves the backoff after at most
\* the one msleep that was under way: it never starts another sleep.
C4_CancelDuringBackoff ==
  \A j \in Jobs :
    mark[j].pc \in {"backoff_check", "backoff_sleep"} =>
      /\ AfterCancel(j) = <<>>
      /\ threads[j].tries = mark[j].tries
      /\ threads[j].pc \in {"backoff_check", "backoff_sleep", "loop", "done", "killed"}
      /\ mark[j].ticks <= 1
      /\ threads[j].pc = "backoff_sleep" => mark[j].ticks = 0 /\ mark[j].pc = "backoff_sleep"

\* C4, its case: cancelled inside msleep, the job has returned by itself after
\* that one sleep.
C4_Witness ==
  \E j \in Jobs :
    mark[j].pc = "backoff_sleep" /\ mark[j].ticks = 1 /\ threads[j].pc = "done"

\* The download_failed signals emitted for entry k of a playlist.
FailedForEntry(j, k) ==
  Len(SelectSeq(emitted[j], LAMBDA e : e.sig = "download_failed" /\ e.m = k))

\* C5: in a playlist job, never cancelled, that has returned, where some entry
\* failed and another entry, which did not fail, produced a file: every entry
\* was gone through, download_completed is the last signal and the only one of
\* its kind, it refers to a recorded file, and exactly one download_failed was
\* emitted for each failing entry.
C5_OneFailedEventPerFailingEntry ==
  \A j \in Jobs :
    LET log == emitted[j]
        t == threads[j]
        n == Len(t.playlist_entries)
    IN
    ( /\ Returned(j)
      /\ \E k \in 1..n : FailedForEntry(j, k) >= 1
      /\ \E k \in 1..n :
           /\ FailedForEntry(j, k) = 0
           /\ \E f \in 1..Len(t.downloaded_files) : t.downloaded_files[f] = k )
    => /\ t.idx = n + 1
       /\ log[Len(log)].sig = "download_completed"
       /\ Len(SelectSeq(log, LAMBDA e : e.sig = "download_completed")) = 1
       /\ \E f \in 1..Len(t.downloaded_files) : t.downloaded_files[f] = log[Len(log)].n
       /\ \A k \in 1..n : FailedForEntry(j, k) <= 1

\* C6: in a job that is not cancelled, a terminal signal is the last signal:
\* nothing follows a download_completed or a download_failed.
C6_TerminalEventIsLast ==
  \A j \in Jobs :
    ~threads[j].is_cancelled =>
      \A k \in 1..Len(emitted[j]) : Terminal(emitted[j][k]) => k = Len(emitted[j])

\* C7: at most one of completed, failed and cancelled is true of a DownloadItem,
\* and once one of them is true no step changes any of the three.
FlagsOf(item) == <<item.completed, item.failed, item.cancelled>>

C7_StatusTerminalImmutable ==
  /\ [](\A j \in Jobs :
          Cardinality({k \in 1..3 : FlagsOf(items[j])[k]}) <= 1)
  /\ [][\A j \in Jobs :
          (\E k \in 1..3 : FlagsOf(items[j])[k]) => FlagsOf(items[j])' = FlagsOf(items[j])]_vars

\* C8: the history list holds at most 50 entries, newest first, and they are
\* the 50 most recently added ones.
C8_HistoryNewestFifty ==
  /\ Len(download_history) <= HistoryMax
  /\ download_history = Take(added, HistoryMax)
  /\ \A k \in 1..(Len(download_history) - 1) :
       download_history[k].timestamp > download_history[k + 1].timestamp

\* C8, its case: more than 50 entries were added, so the oldest were evicted.
C8_Witness ==
  /\ Len(added) > HistoryMax
  /\ Len(download_history) = HistoryMax

\* The history entries recorded for job j.
HistoryOf(j) == SelectSeq(added, LAMBDA h : h.url = j)

\* C9: a job whose item shows a terminal status has exactly one history entry:
\* (file name, success) for completed, ("Failed", not success) otherwise.
C9_OneHistoryEntryPerTerminalJob ==
  \A j \in Jobs :
    (items[j].completed \/ items[j].failed \/ items[j].cancelled) =>
      /\ Len(HistoryOf(j)) = 1
      /\ HistoryOf(j)[1].success = items[j].completed
      /\ ~items[j].completed => HistoryOf(j)[1].filename = "Failed"

InCancelAll(u) == u.pc \in {"all_cancel_wait", "all_final_wait"}

\* C11: when cancel_all_downloads returns, every thread that was running when
\* it was called has is_cancelled set and is no longer running.
C11_CancelAllStopsEveryRunner ==
  [][(InCancelAll(ui) /\ ~InCancelAll(ui')) =>
       \A j \in ui.active : threads'[j].is_cancelled /\ ~isRunning(threads'[j])]_vars

\* The job has reached a terminal status: Completed, Failed or Cancelled.
TerminalStatus(j) == items[j].completed \/ items[j].failed \/ items[j].cancelled

\* The handle of job j is held in download_threads.
Held(j) == \E k \in 1..Len(download_threads) : download_threads[k] = j

\* C12: download_threads holds only jobs without a terminal status, and none
\* whose thread has stopped after cancel_all_downloads.
C12_HandlesOnlyOfLiveJobs ==
  \A j \in Jobs :
    Held(j) =>
      /\ ~(TerminalStatus(j) /\ ~(ui.pc = "cancel_wait" /\ ui.job = j))
      /\ ~(threads[j].is_cancelled /\ ~isRunning(threads[j]) /\ ui.pc = "idle")

\* The jobs ever started.
Started == { j \in Jobs : threads[j].pc # "none" }

\* C13 as stated: active is the number of started jobs whose thread is running,
\* total the number of jobs ever started; active <= total; total never decreases.
C13_ActiveIsEveryRunningJob ==
  /\ [](/\ update_status.active = Cardinality({ j \in Started : isRunning(threads[j]) })
        /\ update_status.total = Cardinality(Started)
        /\ update_status.active <= update_status.total)
  /\ [][update_status.total' >= update_status.total]_vars

\* C13 as amended: active is the number of started jobs whose thread is running
\* and whose handle cancel_download has not removed.
C13_ActiveIsEveryHeldRunningJob ==
  /\ [](/\ update_status.active =
             Cardinality({ j \in Started :
                             /\ isRunning(threads[j])
                             /\ ~(items[j].cancelled /\ ~(ui.pc = "cancel_wait" /\ ui.job = j)) })
        /\ update_status.total = Cardinality(Started)
        /\ update_status.active <= update_status.total)
  /\ [][update_status.total' >= update_status.total]_vars

\* C13, its case: a job was cancelled and its handle removed while its thread
\* is still running: it is counted in total and not in active.
C13_Witness ==
  \E j \in Started :
    /\ items[j].cancelled /\ ui.pc = "idle" /\ isRunning(threads[j])
    /\ update_status.active = 0 /\ update_status.total = 1


\* The positions of the raw entries that are not null and carry an id, in order.
ValidPositions(raw) ==
  SelectSeq([k \in 1..Len(raw) |-> k], LAMBDA k : raw[k] \notin {"null", "noid"})

\* The progress_updated signals emitted for entries.
EntryProgress(log) ==
  SelectSeq(log, LAMBDA e : e.sig = "progress_updated" /\ e.title.text = "entry")

\* The discovery has emitted info_loaded for a playlist.
PlaylistLoaded ==
  loader.log # <<>> /\ loader.log[Len(loader.log)].sig = "info_loaded"
                    /\ loader.log[Len(loader.log)].title.text = "playlist"

\* C14: the normalized list is the list of the raw entries that are not null and
\* carry an id, in their order; the loaded count of the progress signals is 1, 2,
\* ... for these entries in turn, never above their number, so never the number
\* of raw entries when one was skipped; at info_loaded the list is complete and
\* the last progress signal carries their number.
C14_NormalizedListAndLoadedCount ==
  LET valid == ValidPositions(loader.entries)
      seen == EntryProgress(loader.log)
  IN  /\ Len(seen) <= Len(valid)
      /\ \A m \in 1..Len(seen) :
           /\ seen[m].loaded = m
           /\ seen[m].title.of = valid[m]
           /\ seen[m].total = Len(loader.entries)
      /\ loader.valid_entries = [m \in 1..Len(loader.valid_entries) |-> enhanced_entry(valid[m])]
      /\ Len(loader.valid_entries) \in {Len(seen), Len(seen) + 1}
      /\ \A k \in 1..Len(loader.log) :
           /\ loader.log[k].sig = "progress_updated" => loader.log[k].loaded <= Len(valid)
           /\ (loader.log[k].sig = "progress_updated" /\ Len(valid) < Len(loader.entries))
                => loader.log[k].loaded # Len(loader.entries)
      /\ PlaylistLoaded =>
           /\ Len(loader.valid_entries) = Len(valid)
           /\ Len(seen) = Len(valid)
           /\ loader.log[Len(loader.log)].loaded = Len(valid)
           /\ loader.log[Len(loader.log) - 1].sig = "progress_updated"
           /\ loader.log[Len(loader.log) - 1].loaded = Len(valid)

\* C14, its case: 5 raw entries of which the third is null: 4 entries are
\* loaded and the loaded count has reached 4.
C14_Witness ==
  /\ PlaylistLoaded
  /\ loader.entries = <<"id", "id", "null", "id", "id">>
  /\ Len(loader.valid_entries) = 4
  /\ \E k \in 1..Len(loader.log) : loader.log[k].loaded = 4

\* C15: once cancel() has set is_cancelled the discovery emits no signal.
C15_NoLoaderEventAfterCancel ==
  loader.at >= 0 => Len(loader.log) = loader.at


\* Thread k leaves its except clause in this step.
ExceptStepOf(k) == threads[k].pc = "except" /\ threads'[k].pc # "except"

\* C16: the cleanup that a 416 error triggers in one job never removes the
\* partial file of another job that is inside its download call.
C16_CleanupSparesSiblings ==
  [][\A k \in SharedJobs : \A j \in SharedJobs \ {k} :
       (ExceptStepOf(k) /\ j \in part_files /\ InDownload(threads[j]))
         => j \in part_files']_vars


\* Some download call of job j has raised inside the playlist branch.
EntryFailed(j) ==
  \E k \in 1..Len(emitted[j]) :
    emitted[j][k].sig = "download_failed" /\ emitted[j][k].kind \in {"entry", "fallback"}

\* C17: a job that is not cancelled, whose download calls have all returned
\* without an error and which has recorded no file, emits download_failed with
\* the "no files were found" message as the next step and then returns, in the
\* single-item branch and in the playlist branch alike.
C17_NoFilesIsFailed ==
  [][\A j \in Jobs :
       ( /\ threads[j].pc \in {"after_download", "playlist_end"}
         /\ threads'[j].pc # threads[j].pc
         /\ ~threads[j].is_cancelled
         /\ ~EntryFailed(j)
         /\ threads[j].downloaded_files = <<>> )
       => /\ emitted'[j] = Append(emitted[j], Event("download_failed", "nofiles", 0, 0, ""))
          /\ threads'[j].pc = "done"]_vars


\* The vocabulary of the retryable messages, as the specification lists it.
Vocabulary ==
  { <<"t","i","m","e","o","u","t">>,
    <<"c","o","n","n","e","c","t","i","o","n">>,
    <<"n","e","t","w","o","r","k">>,
    <<"h","t","t","p"," ","e","r","r","o","r"," ","5">>,
    <<"t","e","m","p","o","r","a","r","y"," ","f","a","i","l","u","r","e">>,
    <<"u","n","a","b","l","e"," ","t","o"," ","d","o","w","n","l","o","a","d">>,
    <<"f","r","a","g","m","e","n","t">>,
    <<"s","o","c","k","e","t">>,
    <<"h","t","t","p"," ","e","r","r","o","r"," ","4","1","6">>,
    <<"s","s","l">> }

\* C18: is_retryable_error(message) is true exactly when the lower-cased message
\* contains a word of the vocabulary; the answer is the same for the message in
\* upper and in lower case; it is true for "HTTP Error 503: Service Unavailable"
\* and false for "Video unavailable".
C18_IsRetryableVocabulary ==
  call.fn = "is_retryable_error" =>
    /\ call.out = (\E w \in Vocabulary : Contains(w, Lower(call.arg)))
    /\ call.out = (\E w \in Vocabulary : Contains(Upper(w), Upper(call.arg)))
    /\ call.arg = ErrorText("E503") => call.out
    /\ call.arg = ErrorText("EUnavailable") => ~call.out

\* C18, its case: a retryable message that is not in lower case.
C18_Witness ==
  /\ call.fn = "is_retryable_error"
  /\ call.arg = ErrorText("E503")
  /\ call.out


\* C19: format_speed and format_file_size show a number below 1024 in every
\* unit but the last one (MB/s, GB), with no decimal place in bytes and exactly
\* one decimal place in every other unit.
C19_ShownNumberBelow1024 ==
  call.fn \in {"format_speed", "format_file_size"} =>
    /\ call.out.decimals = IF call.out.unit \in {"B/s", "B"} THEN 0 ELSE 1
    /\ call.out.unit \notin {"MB/s", "GB"} =>
         call.out.digits < 1024 * (IF call.out.decimals = 1 THEN 10 ELSE 1)


\* C20: the percent of a progress signal is downloaded * 100 / total with the
\* fraction dropped, where total is total_bytes or, without it,
\* total_bytes_estimate; it is 0 when there is no total or the total is 0.
C20_PercentIsTruncatedRatio ==
  call.fn = "progress_hook" =>
    LET d == call.arg
        total == IF d.total_bytes \notin {Missing, 0} THEN d.total_bytes
                 ELSE IF d.total_bytes_estimate # Missing THEN d.total_bytes_estimate
                 ELSE 0
    IN  call.out = IF total > 0 THEN (d.downloaded_bytes * 100) \div total ELSE 0


\* C21: for a whole number of seconds eta, format_eta gives "{eta}s" for eta in
\* 0..59, "{eta div 60}m {eta mod 60}s" for eta in 60..3599, and
\* "{eta div 3600}h {(eta mod 3600) div 60}m" above; 90 gives "1m 30s" and 3661
\* gives "1h 1m".
C21_FormatEtaBrackets ==
  call.fn = "format_eta" =>
    LET eta == call.arg IN
    /\ eta \in 0..59 => call.out = << Part(eta, "s") >>
    /\ eta \in 60..3599 => call.out = << Part(eta \div 60, "m"), Part(eta % 60, "s") >>
    /\ eta >= 3600 =>
         call.out = << Part(eta \div 3600, "h"), Part((eta % 3600) \div 60, "m") >>
    /\ eta = 90 => call.out = << Part(1, "m"), Part(30, "s") >>
    /\ eta = 3661 => call.out = << Part(1, "h"), Part(1, "m") >>

\* C21, its case: format_eta(3661) was called and gave "1h 1m".
C21_Witness ==
  /\ call.fn = "format_eta"
  /\ call.arg = 3661
  /\ call.out = << Part(1, "h"), Part(1, "m") >>


\* C22: an item that shows "Failed: ..." keeps showing it for as long as it is
\* in the list: no later progress_updated or download_completed of the job
\* replaces the text.
C22_FailedMessageStays ==
  [][\A j \in Jobs :
       (items[j].status = "failed" /\ items[j].in_list /\ items'[j].in_list)
         => items'[j].status = "failed"]_vars


\* Thread j goes through its except clause in this step.
ExceptClauseOf(j) ==
  threads[j].pc = "except" /\ threads'[j].pc \in {"backoff_check", "done"}

\* The error is final: its text holds no word of the vocabulary, or it was
\* raised by the last allowed attempt, attempt max_retries + 1.
FinalError(t) ==
  \/ ~\E w \in Vocabulary : Contains(w, Lower(ErrorText(t.err)))
  \/ t.tries = max_retries + 1

\* The step emits the final download_failed, with the count of attempts started.
EmitsFinalFailure(j) ==
  emitted'[j] = Append(emitted[j],
                       Event("download_failed", "final", threads[j].tries, 0, threads[j].err))

\* The step emits a retry_status and enters the backoff.
EmitsRetrying(j) ==
  /\ Len(emitted'[j]) = Len(emitted[j]) + 1
  /\ emitted'[j][Len(emitted'[j])].sig = "retry_status"
  /\ threads'[j].pc = "backoff_check"

\* C23, as stated: the except clause emits the final download_failed, carrying
\* the number of attempts started, exactly when the error is not retryable or
\* was raised by attempt max_retries + 1; run() then returns with no
\* retry_status and no backoff. Otherwise it emits retry_status and backs off.
C23_FailedExactlyOnFinalError ==
  [][\A j \in Jobs :
       ExceptClauseOf(j) =>
         IF FinalError(threads[j])
         THEN EmitsFinalFailure(j) /\ threads'[j].pc = "done"
         ELSE EmitsRetrying(j)]_vars

\* C23, amended: as above for a job that is not cancelled; for a cancelled job
\* a final error ends run() at once with no signal at all.
C23_FailedExactlyOnFinalErrorUnlessCancelled ==
  [][\A j \in Jobs :
       ExceptClauseOf(j) =>
         IF FinalError(threads[j])
         THEN /\ threads'[j].pc = "done"
              /\ IF threads[j].is_cancelled
                 THEN emitted'[j] = emitted[j]
                 ELSE EmitsFinalFailure(j)
         ELSE EmitsRetrying(j)]_vars

\* C23, its case: four attempts raised a retryable error and the job, never
\* cancelled, has ended with the final download_failed of attempt 4.
C23_Witness ==
  \E j \in Jobs :
    /\ Returned(j)
    /\ emitted[j] # <<>>
    /\ emitted[j][Len(emitted[j])] =
         Event("download_failed", "final", max_retries + 1, 0, "E503")


\* The error text names a byte-range conflict: it contains "HTTP Error 416" or
\* "range not satisfiable".
ByteRangeConflict(e) ==
  \/ Contains(<<"H","T","T","P"," ","E","r","r","o","r"," ","4","1","6">>, ErrorText(e))
  \/ Contains(<<"r","a","n","g","e"," ","n","o","t"," ","s","a","t","i","s","f","i","a","b","l","e">>,
              Lower(ErrorText(e)))

\* C24: an attempt that fails with a byte-range conflict while attempts remain
\* is retried, the partial files being gone when the retry_status is emitted
\* and the next attempt starts; the except clause deletes no partial file for
\* another error nor on the final failure.
C24_CleanupOnRangeConflictOnly ==
  [][\A j \in Jobs :
       ExceptClauseOf(j) =>
         IF ByteRangeConflict(threads[j].err) /\ threads[j].tries <= max_retries
         THEN EmitsRetrying(j) /\ j \notin part_files'
         ELSE part_files' = part_files]_vars


\* C25: every retry_status of a job carries an attempt number from 1 to the
\* maximum it carries, and all the retry_status signals of a job carry the same
\* maximum.
C25_RetryingNumbersConsistent ==
  \A j \in Jobs :
    LET retries == SelectSeq(emitted[j], IsRetry) IN
    /\ \A k \in 1..Len(retries) : 1 <= retries[k].n /\ retries[k].n <= retries[k].m
    /\ \A k, l \in 1..Len(retries) : retries[k].m = retries[l].m


\* The download calls made for entry k of job j with the given kind of URL.
InvokedFor(j, k, url) ==
  Len(SelectSeq(invoked[j], LAMBDA c : c.of = k /\ c.url = url))

\* The download call of entry k with the entry's own URL has raised.
EntryCallFailed(j, k) ==
  \E n \in 1..Len(emitted[j]) :
    /\ emitted[j][n].sig = "download_failed"
    /\ emitted[j][n].kind = "entry"
    /\ emitted[j][n].m = k

\* C26: for every entry of a playlist job the download is called at most once
\* with the entry's URL and at most once with the URL rebuilt from its id; the
\* second call is made exactly when the first one has raised and the entry has
\* an id, and it comes after the first.
C26_OneShotFallback ==
  \A j \in Jobs :
    \A k \in 1..Len(threads[j].playlist_entries) :
      /\ InvokedFor(j, k, "url") <= 1
      /\ InvokedFor(j, k, "fallback") <= 1
      /\ InvokedFor(j, k, "fallback") = 1
           <=> (EntryCallFailed(j, k) /\ threads[j].playlist_entries[k].id)
      /\ EntryCallFailed(j, k) => InvokedFor(j, k, "url") = 1
      /\ \A a, b \in 1..Len(invoked[j]) :
           (invoked[j][a].of = k /\ invoked[j][b].of = k /\ a < b)
             => invoked[j][a].url = "url" /\ invoked[j][b].url = "fallback"

\* C26, its case: a playlist job has returned, the fallback of its first entry
\* having failed too, and an entry without id having failed with no fallback.
C26_Witness ==
  \E j \in Jobs :
    /\ threads[j].pc = "done"
    /\ Len(threads[j].playlist_entries) = 2
    /\ threads[j].playlist_entries[1].id /\ ~threads[j].playlist_entries[2].id
    /\ invoked[j] = << Invocation(1, "url"), Invocation(1, "fallback"), Invocation(2, "url") >>
    /\ FailedForEntry(j, 1) = 2
    /\ FailedForEntry(j, 2) = 1


\* C28: a playlist job makes one attempt, whatever its entries do: it emits no
\* retry_status, never stands in the except clause or in the backoff, starts no
\* second attempt, and calls the download of no entry's URL twice.
C28_NoJobRetryForPlaylist ==
  \A j \in Jobs :
    threads[j].playlist_entries # <<>> =>
      /\ Count(emitted[j], IsRetry) = 0
      /\ threads[j].pc \notin {"except", "backoff_check", "backoff_sleep"}
      /\ threads[j].attempt = 0 /\ threads[j].tries <= 1
      /\ Len(SelectSeq(invoked[j], LAMBDA c : c.url = "url")) <= Len(threads[j].playlist_entries)

\* C28, its case: a playlist job, never cancelled, has returned after the
\* download of an entry and its fallback both raised.
C28_Witness ==
  \E j \in Jobs :
    /\ Returned(j)
    /\ threads[j].playlist_entries # <<>>
    /\ threads[j].tries = 1
    /\ \E k \in 1..Len(threads[j].playlist_entries) : FailedForEntry(j, k) = 2


\* The entries ever recorded for job j.
RecordedFor(h, j) == SelectSeq(h, LAMBDA entry : entry.url = j)

\* C29: once the user has cancelled a job with its cancel button, no history
\* entry is recorded for it, whether its terminal signal was emitted after the
\* click or was already queued for delivery when the click came.
C29_NoHistoryAfterCancel ==
  [][\A j \in Jobs :
       items[j].cancelled => RecordedFor(added', j) = RecordedFor(added, j)]_vars


\* The URLs gone through, in order.
HandledUrls == [k \in 1..Len(window.handled) |-> window.handled[k].url]

\* What C27 says of every URL gone through: the discovery ran for it exactly
\* when it looks like a playlist and the "no playlist" box is not checked; a
\* URL without discovery has one single-item job of its own; a discovery that
\* was cancelled, failed, found nothing or ended without a selection has no
\* job; and no job was started besides.
RoutedAsClaimed ==
  /\ \A k \in 1..Len(window.handled) :
       LET h == window.handled[k] IN
       /\ h.discovery <=> (is_playlist_url(h.url) /\ ~window.no_playlist)
       /\ ~h.discovery =>
            /\ h.job \in 1..downloads_count
            /\ threads[h.job].pc # "none"
            /\ threads[h.job].playlist_entries = <<>>
       /\ h.outcome \in {"cancelled", "failed", "empty", "none_selected", "selection_rejected"}
            => h.job = 0
       /\ h.job # 0 => \A l \in 1..Len(window.handled) : window.handled[l].job = h.job => l = k
  /\ downloads_count = Cardinality({ k \in 1..Len(window.handled) : window.handled[k].job # 0 })

\* C27, as stated: start_downloads goes through every valid submitted URL, in
\* order, and routes each as above.
C27_StartRoutesEveryValidUrl ==
  /\ RoutedAsClaimed
  /\ window.submitted => HandledUrls \o window.urls = get_urls(window.lines)

\* C27, amended: the same when the download directory exists; when it does
\* not, start_downloads goes through no URL and starts no job.
C27_StartRoutesEveryValidUrlOfExistingPath ==
  /\ RoutedAsClaimed
  /\ (window.submitted /\ window.path_exists)
       => HandledUrls \o window.urls = get_urls(window.lines)
  /\ (window.submitted /\ ~window.path_exists)
       => window.handled = <<>> /\ window.urls = <<>> /\ downloads_count = 0

\* C27, its case: start_downloads has returned after a playlist URL whose
\* discovery found entries, of which the user selected none: no job.
C27_Witness ==
  /\ window.submitted /\ window.pc = "open"
  /\ Len(window.handled) = 1
  /\ window.handled[1].discovery
  /\ window.handled[1].outcome = "none_selected"
  /\ window.playlist_info # <<>>
  /\ downloads_count = 0


\* C30: when the user closes the window and answers that the downloads shall
\* continue in the background, the cleanup deletes no partial file of a job
\* whose thread is running; when the answer is Cancel, no thread is cancelled
\* and nothing is deleted, the window staying open.
C30_CloseSparesRunningJobs ==
  [][/\ (window.pc = "open" /\ window'.pc = "closed" /\ window'.reply = "No")
          => \A j \in Jobs :
               (isRunning(threads[j]) /\ j \in part_files) => j \in part_files'
     /\ (window.reply # "Cancel" /\ window'.reply = "Cancel")
          => /\ threads' = threads
             /\ part_files' = part_files
             /\ window'.pc = "open"]_vars


=============================================================================
